---- MODULE Spec2Model ----
(***************************************************************************)
(* A model of cpu_ref/rsCpuScript.cpp: the CPU reference implementation of *)
(* a RenderScript script (RsdCpuScriptImpl).  The compatibility-library    *)
(* build (RS_COMPATIBILITY_LIB) loads the script as a shared object,       *)
(* parses its ".rs.info" descriptor and fills the symbol table; the launch *)
(* coordinator (forEachMtlsSetup) computes the iteration domain of a       *)
(* ForEach launch.                                                         *)
(***************************************************************************)
EXTENDS Integers, Sequences, FiniteSets, TLC

(***************************************************************************)
(* Bounds of the model.                                                    *)
(***************************************************************************)
\* Script instances created in one process.
NumInstances == 3
\* Distinct outcomes of the arc4random() calls of one getRandomString call.
NumRandomSeqs == 2
\* Largest count a generated descriptor declares for one section.
MaxCount == 2
\* Largest extent of a buffer dimension, and largest sub-region bound.
MaxDim == 2
\* Calls of the dynamic loader and the file system that fail in one run.
MaxFaults == 1

\* The largest number of invocations in progress on the thread.
MaxDepth == 2

\* The number of reference-counted objects, and the largest number of
\* elements of an array of them.
NumObjects == 2

MaxElems == 2

\* The largest reference count an object has when a call begins.
MaxRefs == 3

(***************************************************************************)
(* Characters and C strings.  A character is a one-character string; a C   *)
(* string is the sequence of its characters, without the terminator.       *)
(***************************************************************************)
NUL == "NUL"
NL == "\n"

Lowercase ==
    <<"a","b","c","d","e","f","g","h","i","j","k","l","m",
      "n","o","p","q","r","s","t","u","v","w","x","y","z">>

Uppercase ==
    <<"A","B","C","D","E","F","G","H","I","J","K","L","M",
      "N","O","P","Q","R","S","T","U","V","W","X","Y","Z">>

Digits == <<"0","1","2","3","4","5","6","7","8","9">>

\* isspace() of the C locale, as scanf uses it.
Whitespace == {" ", "\n", "\t", "\r", "\f"}

IsDigit(c) == \E d \in 1..10 : Digits[d] = c

DigitVal(c) == (CHOOSE d \in 1..10 : Digits[d] = c) - 1

MinOf(S) == CHOOSE x \in S : \A y \in S : x <= y

\* The first n characters of a C string (all of it when it is shorter).
Prefix(s, n) == IF n >= Len(s) THEN s ELSE IF n <= 0 THEN <<>> ELSE SubSeq(s, 1, n)

\* F applied to the value of x, with x evaluated once.
Bind(x, F(_)) == CHOOSE y \in {F(v) : v \in {x}} : TRUE

\* n copies of the character c.
Rep(c, n) == [k \in 1..n |-> c]

(***************************************************************************)
(* Program constants of the descriptor parser.                             *)
(***************************************************************************)
MAXLINE == 500

EXPORT_VAR_STR ==
    <<"e","x","p","o","r","t","V","a","r","C","o","u","n","t",":"," ">>

EXPORT_FUNC_STR ==
    <<"e","x","p","o","r","t","F","u","n","c","C","o","u","n","t",":"," ">>

EXPORT_FOREACH_STR ==
    <<"e","x","p","o","r","t","F","o","r","E","a","c","h","C","o","u","n","t",":"," ">>

OBJECT_SLOT_STR ==
    <<"o","b","j","e","c","t","S","l","o","t","C","o","u","n","t",":"," ">>

\* The largest count the model represents.  size_t and unsigned int are 32 bits
\* wide on the targets of the library; a conversion that does not fit
\* saturates here, as strtoul does.
WordMax == 2147483647

(***************************************************************************)
(* strgets: copy up to a newline or size-1 characters from the memory at   *)
(* *ppstr into s, advancing *ppstr.  mem is the memory that holds the      *)
(* descriptor: its characters, the terminating NUL, and whatever the       *)
(* module's image holds after it.  A pointer is an index into mem; 0 is    *)
(* the null pointer.  Memory outside the modelled window reads as NUL.     *)
(***************************************************************************)
NULLPTR == 0

MemAt(mem, p) == IF p \in 1..Len(mem) THEN mem[p] ELSE NUL

\* The copy stopped at offset i, on a newline or on the terminating NUL:
\* the pointer is advanced past the character just copied, the NUL included.
strgetsStop(mem, pstr, i) ==
    [ret |-> TRUE,
     s |-> [k \in 1..(IF MemAt(mem, pstr + i) = NUL THEN i ELSE i + 1) |->
               MemAt(mem, pstr + k - 1)],
     pstr |-> pstr + i + 1]

\* stops: the offsets below size-1 that hold a newline or a NUL.
strgetsCopy(mem, size, pstr, stops) ==
    IF stops = {}
    THEN \* size has been exceeded: the line is cut, nothing is reported.
         [ret |-> TRUE,
          s |-> [k \in 1..(size - 1) |-> MemAt(mem, pstr + k - 1)],
          pstr |-> pstr + (size - 1)]
    ELSE Bind(MinOf(stops), LAMBDA i : strgetsStop(mem, pstr, i))

strgets(mem, size, pstr) ==
    IF pstr = NULLPTR \/ MemAt(mem, pstr) = NUL \/ size < 1
    THEN [ret |-> FALSE, s |-> <<>>, pstr |-> pstr]
    ELSE Bind({i \in 0..(size - 2) : MemAt(mem, pstr + i) \in {NUL, NL}},
              LAMBDA stops : strgetsCopy(mem, size, pstr, stops))

(***************************************************************************)
(* sscanf, for the three formats the parser uses.                          *)
(***************************************************************************)
\* The first position from p on that is not in (skip = TRUE) or is in
\* (skip = FALSE) the set chars; the position after the line when none.
FirstPos(line, p, chars, skip) ==
    IF \E q \in p..Len(line) : (line[q] \in chars) # skip
    THEN MinOf({q \in p..Len(line) : (line[q] \in chars) # skip})
    ELSE Len(line) + 1

\* White space in a format, and the start of %u / %zu / %s: skip any white space.
SkipWs(line, p) == FirstPos(line, p, Whitespace, TRUE)

\* The end (exclusive) of the run of digits starting at p.
DigitsEnd(line, p) == FirstPos(line, p, {Digits[d] : d \in 1..10}, TRUE)

RECURSIVE DecimalValue(_, _, _, _)
DecimalValue(line, p, e, acc) ==
    IF p >= e THEN acc
    ELSE DecimalValue(line, p + 1, e,
                      IF acc > (WordMax - 9) \div 10 THEN WordMax
                      ELSE acc * 10 + DigitVal(line[p]))

\* A negated value wraps around to the top of the range.
Negated(v) == IF v > 0 THEN (WordMax - v) + 1 ELSE v

\* The digits run from d to e; a sign, if any, is at q = d - 1.
ScanNumber(line, q, d, e) ==
    IF e = d
    THEN [ok |-> FALSE, val |-> 0, next |-> q]
    ELSE [ok |-> TRUE,
          val |-> IF d > q /\ line[q] = "-"
                  THEN Negated(DecimalValue(line, d, e, 0))
                  ELSE DecimalValue(line, d, e, 0),
          next |-> e]

ScanDigits(line, q, d) ==
    Bind(DigitsEnd(line, d), LAMBDA e : ScanNumber(line, q, d, e))

ScanSign(line, q) ==
    ScanDigits(line, q, IF q <= Len(line) /\ line[q] \in {"+", "-"} THEN q + 1 ELSE q)

\* %u and %zu: optional white space, an optional sign, at least one digit.
ScanUnsigned(line, p) == Bind(SkipWs(line, p), LAMBDA q : ScanSign(line, q))

\* Literal (non-white-space) characters of a format match the input exactly.
MatchLiteral(line, p, lit) ==
    /\ p + Len(lit) - 1 <= Len(line)
    /\ \A k \in 1..Len(lit) : line[p + k - 1] = lit[k]

\* The number of conversions of a format with one conversion.
OneConversion(u) == [n |-> IF u.ok THEN 1 ELSE 0, val |-> u.val]

\* sscanf(line, PREFIX "%zu", &count): PREFIX is a literal followed by one blank.
\* The number of conversions, and the value converted.
ScanCount(line, prefixStr) ==
    IF ~MatchLiteral(line, 1, SubSeq(prefixStr, 1, Len(prefixStr) - 1))
    THEN [n |-> 0, val |-> 0]
    ELSE Bind(ScanUnsigned(line, SkipWs(line, Len(prefixStr))), OneConversion)

\* %500s: the characters from b up to white space, at most MAXLINE of them.
ScanName(line, u, b, e) ==
    IF b > Len(line)
    THEN [n |-> 1, sig |-> u.val, name |-> <<>>]
    ELSE [n |-> 2, sig |-> u.val,
          name |-> [k \in 1..(IF e - b > MAXLINE THEN MAXLINE ELSE e - b) |->
                       line[b + k - 1]]]

\* " - ": white space, a dash, white space.
ScanDash(line, u, dash) ==
    IF ~MatchLiteral(line, dash, <<"-">>)
    THEN [n |-> 1, sig |-> u.val, name |-> <<>>]
    ELSE Bind(SkipWs(line, dash + 1),
              LAMBDA b : Bind(FirstPos(line, b, Whitespace, FALSE),
                              LAMBDA e : ScanName(line, u, b, e)))

ScanSig(line, u) ==
    IF ~u.ok THEN [n |-> 0, sig |-> 0, name |-> <<>>]
    ELSE Bind(SkipWs(line, u.next), LAMBDA dash : ScanDash(line, u, dash))

\* sscanf(line, "%u - %500s", &tmpSig, tmpName)
ScanForEach(line) == Bind(ScanUnsigned(line, 1), LAMBDA u : ScanSig(line, u))

\* sscanf(line, "%u", &varNum)
ScanSlot(line) == Bind(ScanUnsigned(line, 1), OneConversion)

\* char *c = strrchr(line, '\n'); if (c) *c = '\0';
ChopNewline(line) ==
    IF \E q \in 1..Len(line) : line[q] = NL
    THEN Prefix(line, (CHOOSE q \in 1..Len(line) :
                          line[q] = NL /\ \A r \in (q + 1)..Len(line) : line[r] # NL) - 1)
    ELSE line

\* strncat(tmpName, ".expand", MAXLINE-1-strlen(tmpName))
DOT_EXPAND == <<".","e","x","p","a","n","d">>

ExpandName(tmpName) == tmpName \o Prefix(DOT_EXPAND, MAXLINE - 1 - Len(tmpName))

(***************************************************************************)
(* The descriptor parser of RsdCpuScriptImpl::init (compatibility build).  *)
(* syms is the set of symbol names the mapped module exports; the address  *)
(* dlsym returns is modelled by the symbol's name, NULLADDR when absent.   *)
(* A parse state carries the read pointer, the members assigned so far and *)
(* the arrays allocated so far.                                            *)
(***************************************************************************)
NULLADDR == <<>>

\* The value of a member the constructor does not initialize.
UNINIT == -1

dlsym(syms, name) == IF name \in syms THEN name ELSE NULLADDR

ParseStart(rsInfo) ==
    [ok |-> TRUE, pstr |-> rsInfo, reads |-> <<>>, alloc |-> {},
     varCount |-> UNINIT, funcCount |-> UNINIT, forEachCount |-> UNINIT,
     objectSlotCount |-> UNINIT,
     fieldAddress |-> <<>>, fieldIsObject |-> <<>>, invokeFunctions |-> <<>>,
     forEachSignatures |-> <<>>, forEachFunctions |-> <<>>]

\* goto error
ParseFail(st) == [st EXCEPT !.ok = FALSE]

\* The parse state after a strgets call that returned l, recorded in reads.
AfterRead(st, kind, l) ==
    [line |-> l,
     st |-> [st EXCEPT !.pstr = l.pstr,
                       !.reads = Append(@, [kind |-> kind, at |-> st.pstr,
                                            ret |-> l.ret])]]

\* One strgets(line, MAXLINE, &rsInfo) call of the parser.
ReadLine(mem, st, kind) ==
    Bind(strgets(mem, MAXLINE, st.pstr), LAMBDA l : AfterRead(st, kind, l))

RECURSIVE ReadVariables(_, _, _, _)
\* Not a critical error if we don't find a global variable.
ReadVariable(mem, syms, r, i) ==
    IF ~r.line.ret THEN ParseFail(r.st)
    ELSE Bind([r.st EXCEPT !.fieldAddress[i + 1] = dlsym(syms, ChopNewline(r.line.s))],
              LAMBDA st1 : ReadVariables(mem, syms, st1, i + 1))

ReadVariables(mem, syms, st, i) ==
    IF i >= st.varCount THEN st
    ELSE Bind(ReadLine(mem, st, "var"), LAMBDA r : ReadVariable(mem, syms, r, i))

VariableCount(mem, syms, r, c) ==
    IF ~r.line.ret \/ c.n # 1 THEN ParseFail(r.st)
    ELSE IF c.val > 0
    THEN Bind([r.st EXCEPT !.varCount = c.val,
                           !.alloc = @ \cup {"mFieldIsObject", "mFieldAddress"},
                           !.fieldIsObject = [k \in 1..c.val |-> FALSE],
                           !.fieldAddress = [k \in 1..c.val |-> UNINIT]],
              LAMBDA st1 : ReadVariables(mem, syms, st1, 0))
    ELSE [r.st EXCEPT !.varCount = c.val]

VariableCountLine(mem, syms, r) ==
    Bind(ScanCount(r.line.s, EXPORT_VAR_STR), LAMBDA c : VariableCount(mem, syms, r, c))

ParseVariables(mem, syms, st) ==
    Bind(ReadLine(mem, st, "varCount"), LAMBDA r : VariableCountLine(mem, syms, r))

RECURSIVE ReadFunctions(_, _, _, _)
ResolveFunction(mem, syms, r, i, addr) ==
    IF addr = NULLADDR
    THEN ParseFail([r.st EXCEPT !.invokeFunctions[i + 1] = addr])
    ELSE Bind([r.st EXCEPT !.invokeFunctions[i + 1] = addr],
              LAMBDA st1 : ReadFunctions(mem, syms, st1, i + 1))

ReadFunction(mem, syms, r, i) ==
    IF ~r.line.ret THEN ParseFail(r.st)
    ELSE Bind(dlsym(syms, ChopNewline(r.line.s)),
              LAMBDA addr : ResolveFunction(mem, syms, r, i, addr))

ReadFunctions(mem, syms, st, i) ==
    IF i >= st.funcCount THEN st
    ELSE Bind(ReadLine(mem, st, "func"), LAMBDA r : ReadFunction(mem, syms, r, i))

FunctionCount(mem, syms, r, c) ==
    IF ~r.line.ret \/ c.n # 1 THEN ParseFail(r.st)
    ELSE IF c.val > 0
    THEN Bind([r.st EXCEPT !.funcCount = c.val,
                           !.alloc = @ \cup {"mInvokeFunctions"},
                           !.invokeFunctions = [k \in 1..c.val |-> UNINIT]],
              LAMBDA st1 : ReadFunctions(mem, syms, st1, 0))
    ELSE [r.st EXCEPT !.funcCount = c.val]

FunctionCountLine(mem, syms, r) ==
    Bind(ScanCount(r.line.s, EXPORT_FUNC_STR), LAMBDA c : FunctionCount(mem, syms, r, c))

ParseFunctions(mem, syms, st) ==
    Bind(ReadLine(mem, st, "funcCount"), LAMBDA r : FunctionCountLine(mem, syms, r))

RECURSIVE ReadForEach(_, _, _, _)
\* The parse going on whether or not the expanded kernel was found.
ResolveForEachUnchecked(mem, syms, st1, i, addr) ==
    ReadForEach(mem, syms, st1, i + 1)

\* Ignore missing root.expand functions: root() is always specified at
\* location 0.
ResolveForEach(mem, syms, st1, i, addr) ==
    IF i # 0 /\ addr = NULLADDR THEN ParseFail(st1)
    ELSE ReadForEach(mem, syms, st1, i + 1)

\* Lookup the expanded ForEach kernel.
LookupForEach(mem, syms, r, i, f, addr) ==
    IF ~r.line.ret \/ f.n # 2 THEN ParseFail(r.st)
    ELSE Bind([r.st EXCEPT !.forEachSignatures[i + 1] = f.sig,
                           !.forEachFunctions[i + 1] = addr],
              LAMBDA st1 : ResolveForEach(mem, syms, st1, i, addr))

ScanForEachLine(mem, syms, r, i, f) ==
    Bind(dlsym(syms, ExpandName(f.name)),
         LAMBDA addr : LookupForEach(mem, syms, r, i, f, addr))

ReadForEachLine(mem, syms, r, i) ==
    Bind(ScanForEach(r.line.s), LAMBDA f : ScanForEachLine(mem, syms, r, i, f))

ReadForEach(mem, syms, st, i) ==
    IF i >= st.forEachCount THEN st
    ELSE Bind(ReadLine(mem, st, "forEach"), LAMBDA r : ReadForEachLine(mem, syms, r, i))

ForEachCount(mem, syms, r, c) ==
    IF ~r.line.ret \/ c.n # 1 THEN ParseFail(r.st)
    ELSE IF c.val > 0
    THEN Bind([r.st EXCEPT !.forEachCount = c.val,
                           !.alloc = @ \cup {"mForEachSignatures", "mForEachFunctions"},
                           !.forEachSignatures = [k \in 1..c.val |-> UNINIT],
                           !.forEachFunctions = [k \in 1..c.val |-> UNINIT]],
              LAMBDA st1 : ReadForEach(mem, syms, st1, 0))
    ELSE [r.st EXCEPT !.forEachCount = c.val]

ForEachCountLine(mem, syms, r) ==
    Bind(ScanCount(r.line.s, EXPORT_FOREACH_STR), LAMBDA c : ForEachCount(mem, syms, r, c))

ParseForEach(mem, syms, st) ==
    Bind(ReadLine(mem, st, "forEachCount"), LAMBDA r : ForEachCountLine(mem, syms, r))

RECURSIVE ReadObjectSlots(_, _, _)
MarkObjectSlot(mem, r, i, v) ==
    IF ~r.line.ret \/ v.n # 1 THEN ParseFail(r.st)
    ELSE Bind(IF v.val < r.st.varCount
              THEN [r.st EXCEPT !.fieldIsObject[v.val + 1] = TRUE]
              ELSE r.st,
              LAMBDA st1 : ReadObjectSlots(mem, st1, i + 1))

ReadObjectSlot(mem, r, i) ==
    Bind(ScanSlot(r.line.s), LAMBDA v : MarkObjectSlot(mem, r, i, v))

ReadObjectSlots(mem, st, i) ==
    IF i >= st.objectSlotCount THEN st
    ELSE Bind(ReadLine(mem, st, "objectSlot"), LAMBDA r : ReadObjectSlot(mem, r, i))

ObjectSlotCount(mem, r, c) ==
    IF ~r.line.ret \/ c.n # 1 THEN ParseFail(r.st)
    ELSE Bind([r.st EXCEPT !.objectSlotCount = c.val],
              LAMBDA st1 : ReadObjectSlots(mem, st1, 0))

ObjectSlotCountLine(mem, r) ==
    Bind(ScanCount(r.line.s, OBJECT_SLOT_STR), LAMBDA c : ObjectSlotCount(mem, r, c))

ParseObjectSlots(mem, st) ==
    Bind(ReadLine(mem, st, "objectSlotCount"), LAMBDA r : ObjectSlotCountLine(mem, r))

\* The bound-buffer table is allocated last, after every goto error.
AllocBoundAllocs(st) ==
    IF ~st.ok THEN st
    ELSE IF st.varCount > 0 THEN [st EXCEPT !.alloc = @ \cup {"mBoundAllocs"}]
    ELSE st

\* A section is parsed only when no earlier one jumped to error.
AfterVariables(mem, syms, st) == IF st.ok THEN ParseFunctions(mem, syms, st) ELSE st

AfterFunctions(mem, syms, st) == IF st.ok THEN ParseForEach(mem, syms, st) ELSE st

AfterForEach(mem, st) == IF st.ok THEN ParseObjectSlots(mem, st) ELSE st

\* The whole parse: the four sections in order, stopping at the first error.
ParseInfo(mem, syms, rsInfo) ==
    Bind(Bind(Bind(Bind(ParseVariables(mem, syms, ParseStart(rsInfo)),
                        LAMBDA v : AfterVariables(mem, syms, v)),
                   LAMBDA f : AfterFunctions(mem, syms, f)),
              LAMBDA k : AfterForEach(mem, k)),
         AllocBoundAllocs)

(***************************************************************************)
(* File names of the loader (loadSharedLibrary, loadSOHelper).             *)
(***************************************************************************)
\* The cacheDir argument of init, and what is left of it once everything
\* from the last "cache" on is erased.
CacheDir == "/data/data/app/cache"

AppDir == "/data/data/app/"

\* The resName arguments scripts are created with.
ResNames == {"foo"}

\* The name in the application's library directory, tried first.
ScriptSOName(resName) == AppDir \o "/lib/librs." \o resName \o ".so"

\* The name in /system/lib, tried when the first attempt returns NULL.
ScriptSONameSystem(resName) == "/system/lib/librs." \o resName \o ".so"

AliasDir == CacheDir \o "/com.android.renderscript.cache/"

\* Length of the random part of an alias name.
RandomLen == 6

\* One character of getRandomString, from one arc4random() result r.
RandomChar(r) ==
    LET v == (r % 65536) % 62
    IN  IF v < 26 THEN Lowercase[v + 1]
        ELSE IF v < 52 THEN Uppercase[(v - 26) + 1]
        ELSE Digits[(v - 52) + 1]

RECURSIVE getRandomString(_, _)
getRandomString(len, words) ==
    IF len = 0 THEN ""
    ELSE getRandomString(len - 1, words) \o RandomChar(words[len])

\* The k-th modelled outcome of the len arc4random() calls of one
\* getRandomString call.
ArcRandomWords(k, len) == [j \in 1..len |-> k * 31 + j]

RandomSeqs == 1..NumRandomSeqs

AliasName(resName, suffix) ==
    AliasDir \o "librs." \o resName \o "#" \o suffix \o ".so"

(***************************************************************************)
(* Symbol names the loader looks up.                                       *)
(***************************************************************************)
SymRoot == <<"r","o","o","t">>

SymRootExpand == SymRoot \o DOT_EXPAND

SymInit == <<"i","n","i","t">>

SymDtor == <<".","r","s",".","d","t","o","r">>

ArrayMembers ==
    {"mInvokeFunctions", "mForEachFunctions", "mFieldAddress",
     "mFieldIsObject", "mForEachSignatures", "mBoundAllocs"}

(***************************************************************************)
(* The compiled modules the model loads.  A module is what the dynamic     *)
(* loader maps: the memory holding its ".rs.info" descriptor (rsInfo: the  *)
(* address of the symbol, NULLPTR when the module has none), and the names *)
(* of the symbols it exports.  Modules are generated from a plan: the      *)
(* count each section declares, and at most one defect placed in one       *)
(* section.                                                                *)
(***************************************************************************)
Sections == <<"var", "func", "forEach", "objectSlot">>

SectionIndex(sec) == CHOOSE k \in 1..4 : Sections[k] = sec

SectionPrefix(sec) ==
    CASE sec = "var" -> EXPORT_VAR_STR
      [] sec = "func" -> EXPORT_FUNC_STR
      [] sec = "forEach" -> EXPORT_FOREACH_STR
      [] sec = "objectSlot" -> OBJECT_SLOT_STR

Digit(n) == Digits[n + 1]

VarName(j) == <<"v", Digit(j)>>

FuncName(j) == <<"f", Digit(j)>>

\* root() is always specified at location 0.
KernelName(j) == IF j = 0 THEN SymRoot ELSE <<"k", Digit(j)>>

\* A symbol name longer than a line of the parser.
LongName == Rep("a", MAXLINE + 100)

\* Defects of a count line: it does not read as the prefix and a number
\* (CountDefects), or the descriptor ends before it (EndDefects).
CountDefects == {"nonnum", "badprefix", "bare", "absent"}

EndDefects == {"eof", "eofcut", "eofcuttext"}

\* Defects of the name lines of a section.
NameDefects == {"long", "longsplit", "nosym0", "nosym1"}

NoDefect == [kind |-> "none", sec |-> "var"]

PlanDefects ==
    {NoDefect, [kind |-> "noinfo", sec |-> "var"]}
    \cup [kind : CountDefects \cup EndDefects, sec : {"var", "func", "forEach", "objectSlot"}]
    \cup [kind : NameDefects, sec : {"var", "func", "forEach"}]

Plans == [count : [{"var", "func", "forEach", "objectSlot"} -> 0..MaxCount],
          defect : PlanDefects]

DefectAt(plan, sec) ==
    IF plan.defect.sec = sec THEN plan.defect.kind ELSE "none"

CountLine(plan, sec) ==
    LET n == plan.count[sec]
        k == DefectAt(plan, sec)
    IN  CASE k = "nonnum" -> SectionPrefix(sec) \o <<"x", NL>>
          [] k = "badprefix" -> <<"c","o","u","n","t",":"," ", Digit(n), NL>>
          [] k = "bare" -> SectionPrefix(sec) \o <<NL>>
          [] k = "absent" -> <<>>
          [] OTHER -> SectionPrefix(sec) \o <<Digit(n), NL>>

NameLine(plan, sec, j) ==
    LET long == j = 0 /\ DefectAt(plan, sec) \in {"long", "longsplit"}
    IN  CASE sec = "var" -> (IF long THEN LongName ELSE VarName(j)) \o <<NL>>
          [] sec = "func" -> (IF long THEN LongName ELSE FuncName(j)) \o <<NL>>
          [] sec = "forEach" ->
                <<Digit(j + 1), " ", "-", " ">>
                \o (IF long THEN LongName ELSE KernelName(j)) \o <<NL>>
          [] sec = "objectSlot" -> <<Digit(j), NL>>

\* The name lines present in a section: as many as declared, one fewer when
\* an over-long first name stands for two ("longsplit").
LinesPresent(plan, sec) ==
    IF DefectAt(plan, sec) = "longsplit" /\ plan.count[sec] >= 2
    THEN plan.count[sec] - 1
    ELSE plan.count[sec]

RECURSIVE NameLines(_, _, _)
NameLines(plan, sec, m) ==
    IF m = 0 THEN <<>>
    ELSE NameLines(plan, sec, m - 1) \o NameLine(plan, sec, m - 1)

SectionText(plan, sec) ==
    CountLine(plan, sec) \o NameLines(plan, sec, LinesPresent(plan, sec))

\* The text of sections from..to of the descriptor.
RECURSIVE SectionsText(_, _, _)
SectionsText(plan, from, to) ==
    IF from > to THEN <<>>
    ELSE SectionsText(plan, from, to - 1) \o SectionText(plan, Sections[to])

WithoutLastChar(text) == IF text = <<>> THEN <<>> ELSE SubSeq(text, 1, Len(text) - 1)

\* The memory at ".rs.info": the descriptor, its terminating NUL, and what
\* the image holds after it.  With an end defect the descriptor stops before
\* the count line of the section: after a complete line ("eof"), or with
\* the newline of the last line missing ("eofcut": zero bytes follow;
\* "eofcuttext": more text follows the terminator).
PlanMemory(plan) ==
    LET k == plan.defect.kind
        at == SectionIndex(plan.defect.sec)
        before == SectionsText(plan, 1, at - 1)
        rest == SectionsText([plan EXCEPT !.defect = NoDefect], at, 4)
    IN  CASE k = "eof" -> before \o <<NUL>> \o rest \o <<NUL>>
          [] k = "eofcut" -> WithoutLastChar(before) \o <<NUL>>
          [] k = "eofcuttext" -> WithoutLastChar(before) \o <<NUL>> \o rest \o <<NUL>>
          [] OTHER -> SectionsText(plan, 1, 4) \o <<NUL>>

\* The data symbols (global variables) and all the symbols a module built
\* from the plan exports; "nosym<j>" leaves out the symbol of name j of its
\* section; "noentry" leaves out root, init and .rs.dtor, as for a script that
\* has kernels only.
PlanDataSymbols(plan) ==
    {VarName(j) : j \in {i \in 0..(plan.count["var"] - 1) :
                           DefectAt(plan, "var") # "nosym" \o Digit(i)}}

PlanSymbols(plan) ==
    PlanDataSymbols(plan)
    \cup {FuncName(j) : j \in {i \in 0..(plan.count["func"] - 1) :
                                 DefectAt(plan, "func") # "nosym" \o Digit(i)}}
    \cup {ExpandName(KernelName(j)) :
             j \in {i \in 0..(IF plan.count["forEach"] = 0 THEN 0
                              ELSE plan.count["forEach"] - 1) :
                      DefectAt(plan, "forEach") # "nosym" \o Digit(i)}}
    \cup (IF plan.defect.kind = "noentry" THEN {} ELSE {SymRoot, SymInit, SymDtor})

PlanModule(plan) ==
    [plan |-> plan,
     mem |-> PlanMemory(plan),
     rsInfo |-> IF plan.defect.kind = "noinfo" THEN NULLPTR ELSE 1,
     syms |-> PlanSymbols(plan),
     data |-> PlanDataSymbols(plan)]

\* The modules of the loader specification: one that loads, with one global
\* variable and the root kernel, and one whose descriptor is malformed after
\* the variable section.
GoodPlan ==
    [count |-> [sec \in {"var", "func", "forEach", "objectSlot"} |->
                   IF sec \in {"var", "forEach"} THEN 1 ELSE 0],
     defect |-> NoDefect]

BadPlan == [GoodPlan EXCEPT !.defect = [kind |-> "nonnum", sec |-> "func"]]

LoaderPlans == {GoodPlan, BadPlan}

(***************************************************************************)
(* State.                                                                  *)
(***************************************************************************)
Instances == 1..NumInstances

\* The values written to a global variable.
Values == {0, 1}

NULLHANDLE == 0

VARIABLES
    module,           \* the plan of the compiled module installed on the device
    files,            \* names of the regular files on storage
    symlinks,         \* the symbolic links on storage: [name, target]
    cacheDirState,    \* the alias directory: "rwx", "missing" or "denied"
    solist,           \* the dynamic loader's mappings: [name, handle, refs]
    nextHandle,       \* the next handle the dynamic loader hands out
    memory,           \* handle -> data symbol -> value, for mapped handles
    LoadedLibraries,  \* the static set of loadSOHelper
    mutex,            \* the instance holding the init mutex, 0 when free
    crashed,          \* the process was aborted by undefined behaviour
    pc,               \* per instance: where its thread is
    resName,          \* per instance: the resName argument of init
    origName,         \* per instance: loadSOHelper's origName
    newName,          \* per instance: loadSOHelper's newName
    loaded,           \* per instance: loadSOHelper's loaded
    mScriptSO,        \* per instance: the handle member
    members,          \* per instance: the array members that are not NULL
    table,            \* per instance: the symbol table the parse filled
    news,             \* per instance: array member -> number of new[]
    deletes,          \* per instance: array member -> delete[] of a non-NULL pointer
    dlcloses,         \* per instance: number of dlclose calls on its handle
    directMaps,       \* name -> number of successful dlopen calls on the name itself
    unlinkFailed,     \* alias names whose unlink call failed
    faults,           \* number of loader and file-system calls that failed
    aliasFailed,      \* per instance: the names whose alias could not be created
    mtls,             \* the launch descriptor of the last forEachMtlsSetup
    launch,           \* the arguments and outcome of the last forEachMtlsSetup
    dispatch,         \* the kernel and the dispatcher's part of the last invokeForEach
    tls,              \* the thread-local current script, 0 when NULL
    stack,            \* the invocations in progress on the thread, innermost last
    lastExit,         \* how the last invocation was left, and tls before and after
    refs,             \* object -> its reference count
    elemOp,           \* the setGlobalVarWithElemDims call under way, or the last one
    mBoundAllocs,     \* per instance: slot -> the allocation bound to it
    lastBind,         \* the arguments of the last setGlobalBind call
    cleared,          \* per instance: the rsrClearObject calls of its destructor
    caller,           \* the variable access the caller makes, and its output buffer
    compile           \* the last init of the build with the on-device compiler

loaderVars ==
    <<module, files, symlinks, cacheDirState, solist, nextHandle, memory,
      LoadedLibraries, mutex, crashed, pc, resName, origName, newName, loaded,
      mScriptSO, members, table, news, deletes, dlcloses, directMaps,
      unlinkFailed, faults, aliasFailed>>

\* The members changed by the loader, without crashed.
loadedVars ==
    <<module, files, symlinks, cacheDirState, solist, nextHandle, memory,
      LoadedLibraries, mutex, pc, resName, origName, newName, loaded,
      mScriptSO, members, table, news, deletes, dlcloses, directMaps,
      unlinkFailed, faults, aliasFailed>>

invokeVars == <<dispatch, tls, stack, lastExit>>

bindVars == <<refs, elemOp, mBoundAllocs, lastBind>>

launchVars == <<mtls, launch, invokeVars, bindVars, cleared, caller, compile>>

vars == <<loaderVars, launchVars>>

\* A call of the dynamic loader or the file system that may fail for reasons
\* outside the program does so at most MaxFaults times in one run.
Outcomes == IF faults < MaxFaults THEN BOOLEAN ELSE {TRUE}

Fault(ok) == faults' = IF ok THEN faults ELSE faults + 1

(***************************************************************************)
(* The dynamic loader: dlopen de-duplicates by the name it is given.       *)
(***************************************************************************)
\* The file a name leads to, following a symbolic link; "" when none.
ResolveName(name) ==
    IF name \in files THEN name
    ELSE IF \E l \in symlinks : l.name = name /\ l.target \in files
    THEN (CHOOSE l \in symlinks : l.name = name /\ l.target \in files).target
    ELSE ""

\* The handle dlopen(name) returns; mapOk: mapping a file not yet mapped
\* under this name succeeds.
DlopenHandle(name, mapOk) ==
    IF \E l \in solist : l.name = name
    THEN (CHOOSE l \in solist : l.name = name).handle
    ELSE IF ResolveName(name) # "" /\ mapOk THEN nextHandle
    ELSE NULLHANDLE

\* The effect of dlopen(name) on the loader: one more reference to the
\* mapping of that name, or a new mapping with its own copy of the globals.
Dlopen(name, mapOk) ==
    IF \E l \in solist : l.name = name
    THEN /\ solist' = {IF l.name = name THEN [l EXCEPT !.refs = @ + 1] ELSE l :
                         l \in solist}
         /\ UNCHANGED <<nextHandle, memory>>
    ELSE IF ResolveName(name) # "" /\ mapOk
    THEN /\ solist' = solist \cup {[name |-> name, handle |-> nextHandle, refs |-> 1]}
         /\ nextHandle' = nextHandle + 1
         /\ memory' = [h \in DOMAIN memory \cup {nextHandle} |->
                          IF h = nextHandle THEN [d \in PlanDataSymbols(module) |-> 0]
                          ELSE memory[h]]
    ELSE UNCHANGED <<solist, nextHandle, memory>>

Mapped(handle) == \E l \in solist : l.handle = handle

\* dlclose(handle) of a mapped handle: the mapping loses a reference and is
\* unmapped, with its globals, when it loses the last one.
Dlclose(handle) ==
    LET kept == {l \in solist : l.handle # handle \/ l.refs > 1}
    IN  /\ solist' = {IF l.handle = handle THEN [l EXCEPT !.refs = @ - 1] ELSE l :
                         l \in kept}
        /\ memory' = [h \in {l.handle : l \in kept} |-> memory[h]]

(***************************************************************************)
(* The constructor.                                                        *)
(***************************************************************************)
\* The members as the constructor leaves them: the export counts are not
\* initialized.
NewTable ==
    [mRoot |-> NULLADDR, mRootExpand |-> NULLADDR, mInit |-> NULLADDR,
     mFreeChildren |-> NULLADDR,
     mExportedVariableCount |-> UNINIT, mExportedFunctionCount |-> UNINIT,
     mFieldAddress |-> <<>>, mFieldIsObject |-> <<>>, mInvokeFunctions |-> <<>>,
     mForEachSignatures |-> <<>>, mForEachFunctions |-> <<>>,
     mIsThreadable |-> TRUE]

\* Instances are numbered in the order they are constructed.
Construct(i, res) ==
    /\ ~crashed
    /\ pc[i] = "none"
    /\ IF i = 1 THEN TRUE ELSE pc[i - 1] # "none"
    /\ pc' = [pc EXCEPT ![i] = "init"]
    /\ resName' = [resName EXCEPT ![i] = res]
    /\ mScriptSO' = [mScriptSO EXCEPT ![i] = NULLHANDLE]
    /\ members' = [members EXCEPT ![i] = {}]
    /\ table' = [table EXCEPT ![i] = NewTable]
    /\ UNCHANGED <<module, files, symlinks, cacheDirState, solist, nextHandle,
                   memory, LoadedLibraries, mutex, crashed, origName, newName,
                   loaded, news, deletes, dlcloses, directMaps, unlinkFailed,
                   aliasFailed, faults, launchVars>>

(***************************************************************************)
(* The init mutex of the context (mCtx->lockMutex, mCtx->unlockMutex): one *)
(* exclusive lock for the process.                                         *)
(***************************************************************************)
lockMutex(i) == mutex = 0 /\ mutex' = i

unlockMutex(i) == mutex' = 0

(***************************************************************************)
(* init, compatibility build: entry, and loadSharedLibrary / loadSOHelper. *)
(***************************************************************************)
\* init entering loadSharedLibrary without taking the mutex.
InitLockUnlocked(i) ==
    /\ ~crashed
    /\ pc[i] = "init"
    /\ UNCHANGED mutex
    /\ origName' = [origName EXCEPT ![i] = ScriptSOName(resName[i])]
    /\ pc' = [pc EXCEPT ![i] = "helper"]
    /\ UNCHANGED <<module, files, symlinks, cacheDirState, solist, nextHandle,
                   memory, LoadedLibraries, crashed, resName, newName, loaded,
                   mScriptSO, members, table, news, deletes, dlcloses,
                   directMaps, unlinkFailed, aliasFailed, faults, launchVars>>

\* init takes the mutex and calls loadSharedLibrary, which first tries the
\* name in the application's library directory.
InitLock(i) ==
    /\ ~crashed
    /\ pc[i] = "init"
    /\ lockMutex(i)
    /\ origName' = [origName EXCEPT ![i] = ScriptSOName(resName[i])]
    /\ pc' = [pc EXCEPT ![i] = "helper"]
    /\ UNCHANGED <<module, files, symlinks, cacheDirState, solist, nextHandle,
                   memory, LoadedLibraries, crashed, resName, newName, loaded,
                   mScriptSO, members, table, news, deletes, dlcloses,
                   directMaps, unlinkFailed, aliasFailed, faults, launchVars>>

\* loadSharedLibrary without the second attempt under /system/lib.
HelperReturnNoFallback(i, handle) ==
    /\ mScriptSO' = [mScriptSO EXCEPT ![i] = handle]
    /\ pc' = [pc EXCEPT ![i] = "parse"]
    /\ origName' = [origName EXCEPT ![i] = ""]

\* loadSOHelper returns handle to loadSharedLibrary: a NULL from the first
\* name sends it to the /system/lib name; otherwise init gets the handle.
HelperReturn(i, handle) ==
    IF handle = NULLHANDLE /\ origName[i] = ScriptSOName(resName[i])
    THEN /\ origName' = [origName EXCEPT ![i] = ScriptSONameSystem(resName[i])]
         /\ pc' = [pc EXCEPT ![i] = "helper"]
         /\ UNCHANGED mScriptSO
    ELSE /\ mScriptSO' = [mScriptSO EXCEPT ![i] = handle]
         /\ pc' = [pc EXCEPT ![i] = "parse"]
         /\ origName' = [origName EXCEPT ![i] = ""]

\* loadSOHelper without the lookup in LoadedLibraries: every load is direct.
HelperAccessNoLookup(i) ==
    /\ ~crashed
    /\ pc[i] = "helper"
    /\ IF origName[i] \notin files
       THEN HelperReturn(i, NULLHANDLE)
       ELSE /\ pc' = [pc EXCEPT ![i] =
                         "direct"]
            /\ UNCHANGED <<origName, mScriptSO>>
    /\ UNCHANGED <<module, files, symlinks, cacheDirState, solist, nextHandle,
                   memory, LoadedLibraries, mutex, crashed, resName, newName,
                   loaded, members, table, news, deletes, dlcloses, directMaps,
                   unlinkFailed, aliasFailed, faults, launchVars>>

\* access(origName, F_OK), then the lookup in LoadedLibraries.
HelperAccess(i) ==
    /\ ~crashed
    /\ pc[i] = "helper"
    /\ IF origName[i] \notin files
       THEN HelperReturn(i, NULLHANDLE)
       ELSE /\ pc' = [pc EXCEPT ![i] =
                         IF origName[i] \notin LoadedLibraries THEN "direct"
                         ELSE "ensureDir"]
            /\ UNCHANGED <<origName, mScriptSO>>
    /\ UNCHANGED <<module, files, symlinks, cacheDirState, solist, nextHandle,
                   memory, LoadedLibraries, mutex, crashed, resName, newName,
                   loaded, members, table, news, deletes, dlcloses, directMaps,
                   unlinkFailed, aliasFailed, faults, launchVars>>

\* Common path: the library has not been loaded before; dlopen it by its
\* own name and record the name.
HelperDirect(i, mapOk) ==
    /\ ~crashed
    /\ pc[i] = "direct"
    /\ LET h == DlopenHandle(origName[i], mapOk)
       IN  /\ Dlopen(origName[i], mapOk)
           /\ LoadedLibraries' = IF h # NULLHANDLE
                                 THEN LoadedLibraries \cup {origName[i]}
                                 ELSE LoadedLibraries
           /\ directMaps' = IF h # NULLHANDLE
                            THEN [directMaps EXCEPT ![origName[i]] = @ + 1]
                            ELSE directMaps
           /\ HelperReturn(i, h)
    /\ UNCHANGED <<module, files, symlinks, cacheDirState, mutex, crashed,
                   resName, newName, loaded, members, table, news, deletes,
                   dlcloses, unlinkFailed, aliasFailed, launchVars>>
    /\ Fault(mapOk)

\* Check if a path exists and attempt to create it if it doesn't.
ensureCacheDirExists == cacheDirState \in {"rwx", "missing"}

\* The library is in the set: make sure of the alias directory and construct
\* a randomized name for the symlink.
HelperEnsureDir(i, k) ==
    /\ ~crashed
    /\ pc[i] = "ensureDir"
    /\ IF ~ensureCacheDirExists
       THEN /\ HelperReturn(i, NULLHANDLE)
            /\ aliasFailed' = [aliasFailed EXCEPT ![i] = @ \cup {origName[i]}]
            /\ UNCHANGED <<cacheDirState, newName>>
       ELSE /\ cacheDirState' = "rwx"
            /\ UNCHANGED aliasFailed
            /\ newName' = [newName EXCEPT ![i] =
                   AliasName(resName[i],
                             getRandomString(RandomLen, ArcRandomWords(k, RandomLen)))]
            /\ pc' = [pc EXCEPT ![i] = "symlink"]
            /\ UNCHANGED <<origName, mScriptSO>>
    /\ UNCHANGED <<module, files, symlinks, solist, nextHandle, memory,
                   LoadedLibraries, mutex, crashed, resName, loaded, members,
                   table, news, deletes, dlcloses, directMaps, unlinkFailed,
                   faults, launchVars>>

\* symlink(origName, newName); ioOk: the file system carries the call out.
HelperSymlink(i, ioOk) ==
    /\ ~crashed
    /\ pc[i] = "symlink"
    /\ IF ioOk /\ newName[i] \notin files
          /\ ~\E l \in symlinks : l.name = newName[i]
       THEN /\ symlinks' = symlinks \cup
                               {[name |-> newName[i], target |-> origName[i]]}
            /\ pc' = [pc EXCEPT ![i] = "dlopenAlias"]
            /\ UNCHANGED <<origName, mScriptSO, newName, aliasFailed>>
       ELSE /\ HelperReturn(i, NULLHANDLE)
            /\ aliasFailed' = [aliasFailed EXCEPT ![i] = @ \cup {origName[i]}]
            /\ newName' = [newName EXCEPT ![i] = ""]
            /\ UNCHANGED symlinks
    /\ UNCHANGED <<module, files, cacheDirState, solist, nextHandle, memory,
                   LoadedLibraries, mutex, crashed, resName, loaded, members,
                   table, news, deletes, dlcloses, directMaps, unlinkFailed,
                   launchVars>>
    /\ Fault(ioOk)

\* loaded = dlopen(newName)
HelperDlopenAlias(i, mapOk) ==
    /\ ~crashed
    /\ pc[i] = "dlopenAlias"
    /\ loaded' = [loaded EXCEPT ![i] = DlopenHandle(newName[i], mapOk)]
    /\ Dlopen(newName[i], mapOk)
    /\ pc' = [pc EXCEPT ![i] = "unlink"]
    /\ UNCHANGED <<module, files, symlinks, cacheDirState, LoadedLibraries,
                   mutex, crashed, resName, origName, newName, mScriptSO,
                   members, table, news, deletes, dlcloses, directMaps,
                   unlinkFailed, aliasFailed, launchVars>>
    /\ Fault(mapOk)

\* loadSOHelper without the unlink call.
HelperUnlinkKeep(i, ioOk) ==
    /\ ~crashed
    /\ pc[i] = "unlink"
    /\ UNCHANGED <<symlinks, unlinkFailed>>
    /\ LoadedLibraries' = IF loaded[i] # NULLHANDLE
                          THEN LoadedLibraries \cup {newName[i]}
                          ELSE LoadedLibraries
    /\ HelperReturn(i, loaded[i])
    /\ loaded' = [loaded EXCEPT ![i] = NULLHANDLE]
    /\ newName' = [newName EXCEPT ![i] = ""]
    /\ UNCHANGED <<module, files, cacheDirState, solist, nextHandle, memory,
                   mutex, crashed, resName, members, table, news, deletes,
                   dlcloses, directMaps, aliasFailed, launchVars>>
    /\ Fault(ioOk)

\* unlink(newName), whose failure is only logged; then the alias name is
\* recorded when the library was loaded, and loaded is returned.
HelperUnlink(i, ioOk) ==
    /\ ~crashed
    /\ pc[i] = "unlink"
    /\ IF ioOk
       THEN /\ symlinks' = {l \in symlinks : l.name # newName[i]}
            /\ UNCHANGED unlinkFailed
       ELSE /\ unlinkFailed' = unlinkFailed \cup {newName[i]}
            /\ UNCHANGED symlinks
    /\ LoadedLibraries' = IF loaded[i] # NULLHANDLE
                          THEN LoadedLibraries \cup {newName[i]}
                          ELSE LoadedLibraries
    /\ HelperReturn(i, loaded[i])
    /\ loaded' = [loaded EXCEPT ![i] = NULLHANDLE]
    /\ newName' = [newName EXCEPT ![i] = ""]
    /\ UNCHANGED <<module, files, cacheDirState, solist, nextHandle, memory,
                   mutex, crashed, resName, members, table, news, deletes,
                   dlcloses, directMaps, aliasFailed, launchVars>>
    /\ Fault(ioOk)

(***************************************************************************)
(* init, compatibility build: the symbol table, and the two ways out.      *)
(***************************************************************************)
\* The members after the lookups and the parse of a mapped module.
\* operator new[] does not return NULL, so the checks after it never jump.
ParsedTable(syms, st) ==
    [mRoot |-> dlsym(syms, SymRoot),
     mRootExpand |-> dlsym(syms, SymRootExpand),
     mInit |-> dlsym(syms, SymInit),
     mFreeChildren |-> dlsym(syms, SymDtor),
     mExportedVariableCount |-> st.varCount,
     mExportedFunctionCount |-> st.funcCount,
     mFieldAddress |-> st.fieldAddress,
     mFieldIsObject |-> st.fieldIsObject,
     mInvokeFunctions |-> st.invokeFunctions,
     mForEachSignatures |-> st.forEachSignatures,
     mForEachFunctions |-> st.forEachFunctions,
     mIsThreadable |-> TRUE]

\* The members and the way out after the parse ended in st.
InitParsed(i, syms, st) ==
    /\ table' = [table EXCEPT ![i] = ParsedTable(syms, st)]
    /\ members' = [members EXCEPT ![i] = st.alloc]
    /\ news' = [news EXCEPT ![i] =
                   [a \in ArrayMembers |-> IF a \in st.alloc THEN @[a] + 1 ELSE @[a]]]
    /\ pc' = [pc EXCEPT ![i] = IF st.ok THEN "unlock" ELSE "error"]

\* if (mScriptSO) { ... parse ... } else goto error
InitParse(i) ==
    /\ ~crashed
    /\ pc[i] = "parse"
    /\ IF mScriptSO[i] = NULLHANDLE
       THEN /\ pc' = [pc EXCEPT ![i] = "error"]
            /\ UNCHANGED <<table, members, news>>
       ELSE \E m \in {PlanModule(module)} :
                \E st \in {ParseInfo(m.mem, m.syms, m.rsInfo)} :
                    InitParsed(i, m.syms, st)
    /\ UNCHANGED <<module, files, symlinks, cacheDirState, solist, nextHandle,
                   memory, LoadedLibraries, mutex, crashed, resName, origName,
                   newName, loaded, mScriptSO, dlcloses, deletes, directMaps,
                   unlinkFailed, aliasFailed, faults, launchVars>>

\* mCtx->unlockMutex(); return true;
InitSuccess(i) ==
    /\ ~crashed
    /\ pc[i] = "unlock"
    /\ unlockMutex(i)
    /\ pc' = [pc EXCEPT ![i] = "ready"]
    /\ UNCHANGED <<module, files, symlinks, cacheDirState, solist, nextHandle,
                   memory, LoadedLibraries, crashed, resName, origName, newName,
                   loaded, mScriptSO, members, table, news, deletes, dlcloses,
                   directMaps, unlinkFailed, aliasFailed, faults, launchVars>>

\* error: mCtx->unlockMutex();
InitErrorUnlock(i) ==
    /\ ~crashed
    /\ pc[i] = "error"
    /\ unlockMutex(i)
    /\ pc' = [pc EXCEPT ![i] = "cleanup"]
    /\ UNCHANGED <<module, files, symlinks, cacheDirState, solist, nextHandle,
                   memory, LoadedLibraries, crashed, resName, origName, newName,
                   loaded, mScriptSO, members, table, news, deletes, dlcloses,
                   directMaps, unlinkFailed, aliasFailed, faults, launchVars>>

\* delete[] of every array member that is not NULL; the members keep their
\* values.
DeleteArrays(i) ==
    deletes' = [deletes EXCEPT ![i] =
                   [a \in ArrayMembers |->
                       IF a \in members[i] THEN @[a] + 1 ELSE @[a]]]

\* A delete[] of an array already deleted, and a dlclose of a handle no
\* longer mapped, are undefined: the process may abort or go on.
DeletesFreed(i) == \E a \in members[i] : deletes[i][a] >= 1

ClosesStale(i) == mScriptSO[i] # NULLHANDLE /\ ~Mapped(mScriptSO[i])

\* if (mScriptSO) dlclose(mScriptSO); the member keeps its value.
CloseScriptSO(i) ==
    IF mScriptSO[i] = NULLHANDLE
    THEN UNCHANGED <<solist, memory, dlcloses>>
    ELSE /\ dlcloses' = [dlcloses EXCEPT ![i] = @ + 1]
         /\ IF Mapped(mScriptSO[i]) THEN Dlclose(mScriptSO[i])
            ELSE UNCHANGED <<solist, memory>>

\* The rest of the error label: the deletes, the dlclose, return false.
InitErrorCleanup(i) ==
    /\ ~crashed
    /\ pc[i] = "cleanup"
    /\ DeleteArrays(i)
    /\ CloseScriptSO(i)
    /\ crashed' \in IF DeletesFreed(i) \/ ClosesStale(i) THEN BOOLEAN ELSE {FALSE}
    /\ pc' = [pc EXCEPT ![i] = "failed"]
    /\ UNCHANGED <<module, files, symlinks, cacheDirState, nextHandle,
                   LoadedLibraries, mutex, resName, origName, newName, loaded,
                   mScriptSO, members, table, news, directMaps, unlinkFailed,
                   aliasFailed, faults, launchVars>>

(***************************************************************************)
(* The destructor, compatibility build.  It runs on an instance whose init *)
(* returned, true or false.                                                *)
(***************************************************************************)
\* The destructor has not run.
NotCleared == [after |-> "none", calls |-> [slot \in 0..(MaxCount - 1) |-> 0]]

\* The loop of the destructor without the test of the address.
ObjectSlotsToClearAnyAddress(i) ==
    {slot \in 0..(MaxCount - 1) :
        /\ slot < table[i].mExportedVariableCount
        /\ table[i].mFieldIsObject[slot + 1]}

\* The slots the loop of the destructor passes to rsrClearObject: those
\* marked as objects whose address is not NULL.
ObjectSlotsToClear(i) ==
    {slot \in 0..(MaxCount - 1) :
        /\ slot < table[i].mExportedVariableCount
        /\ table[i].mFieldIsObject[slot + 1]
        /\ table[i].mFieldAddress[slot + 1] # NULLADDR}

\* The loop over mFieldIsObject.  An array the error label of init deleted
\* is read all the same: what the loop finds there is not defined.
ClearObjects(i) ==
    IF "mFieldIsObject" \notin members[i] THEN {{}}
    ELSE IF deletes[i]["mFieldIsObject"] >= 1 THEN SUBSET (0..(MaxCount - 1))
    ELSE {ObjectSlotsToClear(i)}

Destroy(i) ==
    /\ ~crashed
    /\ pc[i] \in {"ready", "failed"}
    /\ \E slots \in ClearObjects(i) :
           cleared' = [cleared EXCEPT ![i] =
                          [after |-> pc[i],
                           calls |-> [slot \in 0..(MaxCount - 1) |->
                                         IF slot \in slots THEN @.calls[slot] + 1
                                         ELSE @.calls[slot]]]]
    /\ DeleteArrays(i)
    /\ CloseScriptSO(i)
    /\ crashed' \in IF DeletesFreed(i) \/ ClosesStale(i) THEN BOOLEAN ELSE {FALSE}
    /\ pc' = [pc EXCEPT ![i] = "destroyed"]
    /\ UNCHANGED <<module, files, symlinks, cacheDirState, nextHandle,
                   LoadedLibraries, mutex, resName, origName, newName, loaded,
                   mScriptSO, members, table, news, directMaps, unlinkFailed,
                   aliasFailed, faults, mtls, launch, invokeVars, bindVars, caller, compile>>

(***************************************************************************)
(* Global variables.                                                       *)
(***************************************************************************)
\* The slots a caller may name: those of the declared variables.
VarSlots(i) == 0..(table[i].mExportedVariableCount - 1)

\* The value getGlobalVar copies out of a slot; "none" when the slot has no
\* address and nothing is copied.
getGlobalVar(i, slot) ==
    LET srcPtr == table[i].mFieldAddress[slot + 1]
    IN  IF srcPtr = NULLADDR THEN "none" ELSE memory[mScriptSO[i]][srcPtr]

\* memcpy(destPtr, data, dataLength), unless the slot has no address.
setGlobalVar(i, slot, data) ==
    LET destPtr == table[i].mFieldAddress[slot + 1]
    IN  IF destPtr = NULLADDR THEN UNCHANGED memory
        ELSE memory' = [memory EXCEPT ![mScriptSO[i]][destPtr] = data]

SetGlobalVar(i, slot, data) ==
    /\ ~crashed
    /\ pc[i] = "ready"
    /\ slot \in VarSlots(i)
    /\ Mapped(mScriptSO[i])
    /\ setGlobalVar(i, slot, data)
    /\ UNCHANGED <<module, files, symlinks, cacheDirState, solist, nextHandle,
                   LoadedLibraries, mutex, crashed, pc, resName, origName,
                   newName, loaded, mScriptSO, members, table, news, deletes,
                   dlcloses, directMaps, unlinkFailed, aliasFailed, faults, launchVars>>

\* The caller has made no access; out is its output buffer.
NoCall == [op |-> "none", slot |-> 0, data |-> 0, out |-> 0, returned |-> FALSE]

\* The caller makes up its mind about the next access.
CallerChooses(op, slot, data) ==
    /\ ~crashed
    /\ caller' = [caller EXCEPT !.op = op, !.slot = slot, !.data = data,
                                !.returned = FALSE]
    /\ UNCHANGED <<loaderVars, mtls, launch, invokeVars, bindVars, cleared, compile>>

\* The output buffer after a getGlobalVar that clears it when the slot has
\* no address.
CopyOutOrClear(i, slot, out) ==
    IF table[i].mFieldAddress[slot + 1] = NULLADDR THEN 0
    ELSE getGlobalVar(i, slot)

\* The output buffer after getGlobalVar: as it was when the slot has no
\* address, else the bytes of the variable.
CopyOut(i, slot, out) ==
    IF table[i].mFieldAddress[slot + 1] = NULLADDR THEN out
    ELSE getGlobalVar(i, slot)

\* getGlobalVar(slot, data, dataLength) into the output buffer of the caller.
GetGlobalVar(i, slot) ==
    /\ ~crashed
    /\ pc[i] = "ready"
    /\ slot \in VarSlots(i)
    /\ Mapped(mScriptSO[i])
    /\ caller' = [caller EXCEPT !.out = CopyOut(i, slot, @), !.returned = TRUE]
    /\ UNCHANGED <<loaderVars, mtls, launch, invokeVars, bindVars, cleared, compile>>

(***************************************************************************)
(* ForEach launches: forEachMtlsSetup fills the MTLaunchStruct of one      *)
(* invokeForEach call.                                                     *)
(***************************************************************************)
RS_ERROR_NONE == "RS_ERROR_NONE"

RS_ERROR_BAD_SCRIPT == "RS_ERROR_BAD_SCRIPT"

rsMin(a, b) == IF a < b THEN a ELSE b

rsMax(a, b) == IF a > b THEN a ELSE b

\* The allocation arguments: no allocation (a NULL pointer), or one with its
\* backing store (mallocPtr, NULL when no surface is bound) and its type.
NoAllocation ==
    [present |-> FALSE, mallocPtr |-> NULLPTR, dimX |-> 0, dimY |-> 0, dimZ |-> 0,
     elementSize |-> 0, stride |-> 0]

Allocation(ptr, x, y, z) ==
    [present |-> TRUE, mallocPtr |-> ptr, dimX |-> x, dimY |-> y, dimZ |-> z,
     elementSize |-> 4, stride |-> 4 * x]

Dims == 0..MaxDim

BackedAllocations == {Allocation(1, x, y, z) : x \in Dims, y \in Dims, z \in Dims}

UnbackedAllocation == Allocation(NULLPTR, 1, 1, 1)

\* The (ain, aout) pairs of the launches: one buffer, an input with an output
\* of the same type, none at all, and those with a buffer that has no
\* backing store.
AllocationPairs ==
    {<<a, NoAllocation>> : a \in BackedAllocations}
    \cup {<<NoAllocation, a>> : a \in BackedAllocations}
    \cup {<<a, [a EXCEPT !.mallocPtr = 2]>> : a \in BackedAllocations}
    \cup {<<NoAllocation, NoAllocation>>,
          <<UnbackedAllocation, NoAllocation>>,
          <<NoAllocation, UnbackedAllocation>>,
          <<Allocation(1, 1, 1, 1), UnbackedAllocation>>}

\* The RsScriptCall argument: NULL, or the bounds of a sub-region.
NoScriptCall ==
    [present |-> FALSE, xStart |-> 0, xEnd |-> 0, yStart |-> 0, yEnd |-> 0,
     zStart |-> 0, zEnd |-> 0]

ScriptCalls ==
    {NoScriptCall}
    \cup [present : {TRUE}, xStart : Dims, xEnd : 0..(MaxDim + 1),
          yStart : Dims, yEnd : 0..(MaxDim + 1),
          zStart : Dims, zEnd : 0..(MaxDim + 1)]

\* memset(mtls, 0, sizeof(MTLaunchStruct))
ZeroLaunchStruct ==
    [dimX |-> 0, dimY |-> 0, dimZ |-> 0,
     xStart |-> 0, xEnd |-> 0, yStart |-> 0, yEnd |-> 0, zStart |-> 0, zEnd |-> 0,
     arrayStart |-> 0, arrayEnd |-> 0,
     ain |-> NoAllocation, aout |-> NoAllocation,
     ptrIn |-> NULLPTR, eStrideIn |-> 0, yStrideIn |-> 0,
     ptrOut |-> NULLPTR, eStrideOut |-> 0, yStrideOut |-> 0,
     mSliceSize |-> 0, mSliceNum |-> 0, isThreadable |-> FALSE]

\* The result of forEachMtlsSetup: the struct and the error it reported.
SetupResult(m, e) == [mtls |-> m, error |-> e]

\* The tail of forEachMtlsSetup without the floor of 1 on the end bounds.
SetupRestUnfloored(ain, aout, isThreadable, m) ==
    SetupResult(
        [m EXCEPT !.ain = ain,
                  !.aout = aout,
                  !.mSliceSize = 1,
                  !.mSliceNum = 0,
                  !.isThreadable = isThreadable,
                  !.ptrIn = IF ain.present THEN ain.mallocPtr ELSE NULLPTR,
                  !.eStrideIn = IF ain.present THEN ain.elementSize ELSE 0,
                  !.yStrideIn = IF ain.present THEN ain.stride ELSE @,
                  !.ptrOut = IF aout.present THEN aout.mallocPtr ELSE NULLPTR,
                  !.eStrideOut = IF aout.present THEN aout.elementSize ELSE 0,
                  !.yStrideOut = IF aout.present THEN aout.stride ELSE @],
        RS_ERROR_NONE)

\* The tail of forEachMtlsSetup with the floor of 1 on the x axis only.
SetupRestFloorsOnlyX(ain, aout, isThreadable, m) ==
    SetupRestUnfloored(ain, aout, isThreadable, [m EXCEPT !.xEnd = rsMax(1, m.xEnd)])

\* The tail of forEachMtlsSetup, after the three axes.
SetupRest(ain, aout, isThreadable, m) ==
    SetupResult(
        [m EXCEPT !.xEnd = rsMax(1, m.xEnd),
                  !.yEnd = rsMax(1, m.yEnd),
                  !.zEnd = rsMax(1, m.zEnd),
                  !.arrayEnd = rsMax(1, m.arrayEnd),
                  !.ain = ain,
                  !.aout = aout,
                  !.mSliceSize = 1,
                  !.mSliceNum = 0,
                  !.isThreadable = isThreadable,
                  !.ptrIn = IF ain.present THEN ain.mallocPtr ELSE NULLPTR,
                  !.eStrideIn = IF ain.present THEN ain.elementSize ELSE 0,
                  !.yStrideIn = IF ain.present THEN ain.stride ELSE @,
                  !.ptrOut = IF aout.present THEN aout.mallocPtr ELSE NULLPTR,
                  !.eStrideOut = IF aout.present THEN aout.elementSize ELSE 0,
                  !.yStrideOut = IF aout.present THEN aout.stride ELSE @],
        RS_ERROR_NONE)

\* The z axis of forEachMtlsSetup taking the start of the caller also when
\* the end is 0.
SetupZKeepsStart(ain, aout, sc, isThreadable, m) ==
    IF ~sc.present
    THEN SetupRest(ain, aout, isThreadable, [m EXCEPT !.zEnd = m.dimZ])
    ELSE IF sc.zEnd = 0
    THEN SetupRest(ain, aout, isThreadable,
                   [m EXCEPT !.zStart = rsMin(m.dimZ, sc.zStart), !.zEnd = m.dimZ])
    ELSE IF rsMin(m.dimZ, sc.zStart) >= rsMin(m.dimZ, sc.zEnd)
    THEN SetupResult([m EXCEPT !.zStart = rsMin(m.dimZ, sc.zStart),
                               !.zEnd = rsMin(m.dimZ, sc.zEnd)],
                     RS_ERROR_NONE)
    ELSE SetupRest(ain, aout, isThreadable,
                   [m EXCEPT !.zStart = rsMin(m.dimZ, sc.zStart),
                             !.zEnd = rsMin(m.dimZ, sc.zEnd)])

SetupZ(ain, aout, sc, isThreadable, m) ==
    IF ~sc.present \/ sc.zEnd = 0
    THEN SetupRest(ain, aout, isThreadable, [m EXCEPT !.zEnd = m.dimZ])
    ELSE IF rsMin(m.dimZ, sc.zStart) >= rsMin(m.dimZ, sc.zEnd)
    THEN SetupResult([m EXCEPT !.zStart = rsMin(m.dimZ, sc.zStart),
                               !.zEnd = rsMin(m.dimZ, sc.zEnd)],
                     RS_ERROR_NONE)
    ELSE SetupRest(ain, aout, isThreadable,
                   [m EXCEPT !.zStart = rsMin(m.dimZ, sc.zStart),
                             !.zEnd = rsMin(m.dimZ, sc.zEnd)])

\* The y axis of forEachMtlsSetup going on to the z axis when the clamped
\* start is not below the clamped end.
SetupYWithoutReturn(ain, aout, sc, isThreadable, m) ==
    IF ~sc.present \/ sc.yEnd = 0
    THEN SetupZ(ain, aout, sc, isThreadable, [m EXCEPT !.yEnd = m.dimY])
    ELSE SetupZ(ain, aout, sc, isThreadable,
                [m EXCEPT !.yStart = rsMin(m.dimY, sc.yStart),
                          !.yEnd = rsMin(m.dimY, sc.yEnd)])

SetupY(ain, aout, sc, isThreadable, m) ==
    IF ~sc.present \/ sc.yEnd = 0
    THEN SetupZ(ain, aout, sc, isThreadable, [m EXCEPT !.yEnd = m.dimY])
    ELSE IF rsMin(m.dimY, sc.yStart) >= rsMin(m.dimY, sc.yEnd)
    THEN SetupResult([m EXCEPT !.yStart = rsMin(m.dimY, sc.yStart),
                               !.yEnd = rsMin(m.dimY, sc.yEnd)],
                     RS_ERROR_NONE)
    ELSE SetupZ(ain, aout, sc, isThreadable,
                [m EXCEPT !.yStart = rsMin(m.dimY, sc.yStart),
                          !.yEnd = rsMin(m.dimY, sc.yEnd)])

\* The x axis of forEachMtlsSetup with the start of the sub-region left at 0.
SetupXWithoutStart(ain, aout, sc, isThreadable, m) ==
    IF ~sc.present \/ sc.xEnd = 0
    THEN SetupY(ain, aout, sc, isThreadable, [m EXCEPT !.xEnd = m.dimX])
    ELSE IF rsMin(m.dimX, sc.xStart) >= rsMin(m.dimX, sc.xEnd)
    THEN SetupResult([m EXCEPT !.xEnd = rsMin(m.dimX, sc.xEnd)], RS_ERROR_NONE)
    ELSE SetupY(ain, aout, sc, isThreadable,
                [m EXCEPT !.xEnd = rsMin(m.dimX, sc.xEnd)])

SetupX(ain, aout, sc, isThreadable, m) ==
    IF ~sc.present \/ sc.xEnd = 0
    THEN SetupY(ain, aout, sc, isThreadable, [m EXCEPT !.xEnd = m.dimX])
    ELSE IF rsMin(m.dimX, sc.xStart) >= rsMin(m.dimX, sc.xEnd)
    THEN SetupResult([m EXCEPT !.xStart = rsMin(m.dimX, sc.xStart),
                               !.xEnd = rsMin(m.dimX, sc.xEnd)],
                     RS_ERROR_NONE)
    ELSE SetupY(ain, aout, sc, isThreadable,
                [m EXCEPT !.xStart = rsMin(m.dimX, sc.xStart),
                          !.xEnd = rsMin(m.dimX, sc.xEnd)])

\* The dimensions are those of ain, or of aout when there is no ain.
SetupDims(a, m) == [m EXCEPT !.dimX = a.dimX, !.dimY = a.dimY, !.dimZ = a.dimZ]

forEachMtlsSetup(ain, aout, sc, isThreadable) ==
    IF ain.present /\ ain.mallocPtr = NULLPTR
    THEN SetupResult(ZeroLaunchStruct, RS_ERROR_BAD_SCRIPT)
    ELSE IF aout.present /\ aout.mallocPtr = NULLPTR
    THEN SetupResult(ZeroLaunchStruct, RS_ERROR_BAD_SCRIPT)
    ELSE IF ain.present
    THEN SetupX(ain, aout, sc, isThreadable, SetupDims(ain, ZeroLaunchStruct))
    ELSE IF aout.present
    THEN SetupX(ain, aout, sc, isThreadable, SetupDims(aout, ZeroLaunchStruct))
    ELSE SetupResult(ZeroLaunchStruct, RS_ERROR_BAD_SCRIPT)

\* No invokeForEach call has been made.
NoLaunch ==
    [stage |-> "idle", ain |-> NoAllocation, aout |-> NoAllocation,
     sc |-> NoScriptCall, error |-> RS_ERROR_NONE]

\* The struct and the error sink after forEachMtlsSetup returned r.
SetupDone(ain, aout, sc, r) ==
    /\ mtls' = r.mtls
    /\ launch' = [stage |-> "setup", ain |-> ain, aout |-> aout, sc |-> sc,
                  error |-> r.error]

\* invokeForEach on a loaded script, with any of the generated arguments:
\* the call of forEachMtlsSetup.
ForEachMtlsSetup(i) ==
    /\ ~crashed
    /\ pc[i] = "ready"
    /\ launch.stage = "idle"
    /\ \E pair \in AllocationPairs, sc \in ScriptCalls :
           SetupDone(pair[1], pair[2], sc,
                     forEachMtlsSetup(pair[1], pair[2], sc, table[i].mIsThreadable))
    /\ UNCHANGED <<loaderVars, invokeVars, bindVars, cleared, caller, compile>>

(***************************************************************************)
(* invokeForEach: the setup of the launch struct, the kernel of the slot,  *)
(* the thread-local current script around the dispatcher.                  *)
(***************************************************************************)
\* rsAssert is a macro of rsUtils.h: when the condition is false the build
\* either logs and goes on or aborts the process.
rsAssert(cond) == IF cond THEN {"pass"} ELSE {"logged", "abort"}

\* The three rsAssert of one axis hold.
AxisAsserts(dim, start, end) == start < dim /\ end <= dim /\ start < end

\* Every rsAssert that forEachMtlsSetup evaluated held (r is its result):
\* those of the axes with an end that is not 0, and the one on the z
\* dimension of ain, which is evaluated when no axis returned.  An axis that
\* returns has failed one of its own.
SetupAsserts(ain, aout, sc, r) ==
    LET a == IF ain.present THEN ain ELSE aout
        returned == /\ sc.present
                    /\ \/ sc.xEnd # 0 /\ rsMin(a.dimX, sc.xStart) >= rsMin(a.dimX, sc.xEnd)
                       \/ sc.yEnd # 0 /\ rsMin(a.dimY, sc.yStart) >= rsMin(a.dimY, sc.yEnd)
                       \/ sc.zEnd # 0 /\ rsMin(a.dimZ, sc.zStart) >= rsMin(a.dimZ, sc.zEnd)
    IN  \/ r.error # RS_ERROR_NONE
        \/ /\ ~returned
           /\ sc.present /\ sc.xEnd # 0 => AxisAsserts(a.dimX, sc.xStart, sc.xEnd)
           /\ sc.present /\ sc.yEnd # 0 => AxisAsserts(a.dimY, sc.yStart, sc.yEnd)
           /\ sc.present /\ sc.zEnd # 0 => AxisAsserts(a.dimZ, sc.zStart, sc.zEnd)
           /\ ~ain.present \/ ain.dimZ = 0

\* What a read beyond the end of an array yields: some pointer that is not
\* NULL and is not a function of the module.
WILDADDR == <<"*">>

\* forEachKernelSetup reads mForEachFunctions[slot] and
\* mForEachSignatures[slot] without comparing slot with the number of
\* kernels.  Beyond the end of the arrays the read is undefined: it yields
\* NULL or some other pointer, or faults.
forEachKernelSetup(i, slot) ==
    IF slot < Len(table[i].mForEachFunctions)
    THEN {[kernel |-> table[i].mForEachFunctions[slot + 1],
           sig |-> table[i].mForEachSignatures[slot + 1], fault |-> FALSE]}
    ELSE {[kernel |-> NULLADDR, sig |-> 0, fault |-> FALSE],
          [kernel |-> WILDADDR, sig |-> 0, fault |-> FALSE],
          [kernel |-> NULLADDR, sig |-> 0, fault |-> TRUE]}

\* The dispatcher calls the kernel once for each row of the domain.
Extent(start, end) == IF end > start THEN end - start ELSE 0

launchThreads(m) ==
    IF Extent(m.xStart, m.xEnd) = 0 THEN 0
    ELSE Extent(m.yStart, m.yEnd) * Extent(m.zStart, m.zEnd)

\* setTLS stores the script in the thread-local slot and returns the one
\* that was there.
setTLS(script) == tls' = script

\* No invokeForEach call has been made.
NoDispatch ==
    [stage |-> "idle", script |-> 0, slot |-> 0, kernel |-> NULLADDR, sig |-> 0,
     reads |-> {}, dispatched |-> FALSE, calls |-> 0]

NoExit == [kind |-> "none", clean |-> TRUE, before |-> 0, after |-> 0]

\* The frame of an invocation wrapper: its script and the oldTLS it keeps.
Frame(i, kind) == [script |-> i, kind |-> kind, oldTLS |-> tls]

\* The slots invokeForEach is called with: those of the kernels and the
\* first one beyond them.
KernelSlots(i) == 0..Len(table[i].mForEachFunctions)

\* The buffers of the launches that go to the dispatcher: an input of any
\* dimensions alone, the pairs without a usable buffer, and an output alone
\* or with an input for the buffers whose three dimensions are equal.
DispatchPairs ==
    {p \in AllocationPairs :
        \/ ~p[2].present
        \/ p[2].mallocPtr = NULLPTR
        \/ p[2].dimX = p[2].dimY /\ p[2].dimY = p[2].dimZ}

\* Their sub-regions: any on the x and y axes, the z axis with start and
\* end 0 or 1.
DispatchCalls == {sc \in ScriptCalls : sc.zStart <= 1 /\ sc.zEnd <= 1}

\* The state after lines 850-854 of invokeForEach with the result r of
\* forEachMtlsSetup, the outcome a1 of its assertions, the result k of the
\* reads of forEachKernelSetup and the outcome a2 of its assertion.
ForEachEntered(i, ain, aout, sc, slot, r, a1, k, a2) ==
    /\ mtls' = r.mtls
    /\ launch' = [stage |-> "setup", ain |-> ain, aout |-> aout, sc |-> sc,
                  error |-> r.error]
    /\ IF a1 = "abort"
       THEN /\ dispatch' = [NoDispatch EXCEPT !.stage = "aborted", !.script = i,
                                              !.slot = slot]
            /\ crashed' = TRUE
            /\ UNCHANGED <<tls, stack>>
       ELSE IF k.fault
       THEN /\ dispatch' = [NoDispatch EXCEPT !.stage = "crashed", !.script = i,
                                              !.slot = slot, !.reads = {slot}]
            /\ crashed' = TRUE
            /\ UNCHANGED <<tls, stack>>
       ELSE IF a2 = "abort"
       THEN /\ dispatch' = [NoDispatch EXCEPT !.stage = "aborted", !.script = i,
                                              !.slot = slot, !.reads = {slot},
                                              !.kernel = k.kernel, !.sig = k.sig]
            /\ crashed' = TRUE
            /\ UNCHANGED <<tls, stack>>
       ELSE /\ dispatch' = [NoDispatch EXCEPT !.stage = "dispatching", !.script = i,
                                              !.slot = slot, !.reads = {slot},
                                              !.kernel = k.kernel, !.sig = k.sig]
            /\ crashed' = FALSE
            /\ setTLS(i)
            /\ stack' = Append(stack, Frame(i, "forEach"))

\* invokeForEach up to the call of the dispatcher.
InvokeForEach(i, pairs, calls) ==
    /\ ~crashed
    /\ pc[i] = "ready"
    /\ dispatch.stage = "idle"
    /\ Len(stack) < MaxDepth
    /\ \E pair \in pairs, sc \in calls, slot \in KernelSlots(i) :
       \E r \in {forEachMtlsSetup(pair[1], pair[2], sc, table[i].mIsThreadable)} :
       \E a1 \in rsAssert(SetupAsserts(pair[1], pair[2], sc, r)) :
       \E k \in forEachKernelSetup(i, slot) :
       \E a2 \in rsAssert(k.kernel # NULLADDR) :
           ForEachEntered(i, pair[1], pair[2], sc, slot, r, a1, k, a2)
    /\ UNCHANGED <<loadedVars, lastExit, bindVars, cleared, caller, compile>>

\* launchThreads runs the rows of the domain and returns, and invokeForEach
\* puts oldTLS back.  A call through a pointer that is not a kernel of the
\* module is undefined: through NULL it faults, through another pointer it
\* faults or returns.
InvokeForEachReturn(i, survives) ==
    /\ ~crashed
    /\ dispatch.stage = "dispatching"
    /\ stack # <<>>
    /\ stack[Len(stack)] = [script |-> i, kind |-> "forEach",
                            oldTLS |-> stack[Len(stack)].oldTLS]
    /\ LET n == launchThreads(mtls)
           wild == n > 0 /\ dispatch.kernel \in {NULLADDR, WILDADDR}
       IN  IF wild /\ (dispatch.kernel = NULLADDR \/ ~survives)
           THEN /\ dispatch' = [dispatch EXCEPT !.stage = "crashed",
                                                !.dispatched = TRUE]
                /\ crashed' = TRUE
                /\ UNCHANGED <<tls, stack, lastExit>>
           ELSE /\ dispatch' = [dispatch EXCEPT !.stage = "done",
                                                !.dispatched = TRUE, !.calls = n]
                /\ crashed' = FALSE
                /\ setTLS(stack[Len(stack)].oldTLS)
                /\ stack' = SubSeq(stack, 1, Len(stack) - 1)
                /\ lastExit' = [kind |-> "forEach", clean |-> TRUE,
                                before |-> stack[Len(stack)].oldTLS,
                                after |-> stack[Len(stack)].oldTLS]
    /\ UNCHANGED <<loadedVars, mtls, launch, bindVars, cleared, caller, compile>>

(***************************************************************************)
(* setGlobalVarWithElemDims.  The variable of the slot is an array of      *)
(* MaxElems object handles, 0 for NULL; the memory of the variable is the  *)
(* number whose digits to the base NumObjects + 1 are the handles.         *)
(***************************************************************************)
Objects == 1..NumObjects

RECURSIVE Pow(_, _)
Pow(b, k) == IF k = 0 THEN 1 ELSE b * Pow(b, k - 1)

\* Element k (from 1) of the array kept in the memory value v.
ElemAt(v, k) == (v \div Pow(NumObjects + 1, k - 1)) % (NumObjects + 1)

\* The memory value of an array whose elements are those of data.
RECURSIVE EncodeElems(_)
EncodeElems(data) ==
    IF data = <<>> THEN 0
    ELSE data[1] + (NumObjects + 1) * EncodeElems(SubSeq(data, 2, Len(data)))

\* memcpy(destPtr, data, dataLength): the first Len(data) elements are
\* replaced.
CopyElems(v, data) ==
    (v \div Pow(NumObjects + 1, Len(data))) * Pow(NumObjects + 1, Len(data))
        + EncodeElems(data)

\* Element::incRefs and Element::decRefs on one element: the reference count
\* of the object it holds goes up or down by one; NULL holds none.
incRefs(counts, o) == IF o = 0 THEN counts ELSE [counts EXCEPT ![o] = @ + 1]

decRefs(counts, o) == IF o = 0 THEN counts ELSE [counts EXCEPT ![o] = @ - 1]

\* The arguments: the incoming elements, dims[0] of them, and dimLength in
\* bytes for one dimension or two.
ElemData == UNION {[1..n -> Objects] : n \in 0..MaxElems}

DimLengths == {4, 8}

NoElemOp ==
    [phase |-> "idle", script |-> 0, slot |-> 0, data |-> <<>>, old |-> <<>>,
     dimLength |-> 0, incs |-> 0, decs |-> 0, copied |-> FALSE, same |-> FALSE,
     start |-> [o \in Objects |-> 1]]

\* The loop body setGlobalVarWithElemDims runs next without the decrement
\* loop.
NextElemStepIncOnly(op) ==
    IF op.dimLength = 1 /\ op.incs < Len(op.data) THEN "inc" ELSE "copy"

\* The loop body setGlobalVarWithElemDims runs next with the decrement loop
\* ahead of the increment loop.
NextElemStepDecFirst(op) ==
    IF op.dimLength = 1 /\ op.decs < Len(op.data) THEN "dec"
    ELSE IF op.dimLength = 1 /\ op.incs < Len(op.data) THEN "inc"
    ELSE "copy"

\* The loop body setGlobalVarWithElemDims runs next: the increment loop, then
\* the decrement loop, both only when dimLength is 1, then the memcpy.
NextElemStep(op) ==
    IF op.dimLength = 1 /\ op.incs < Len(op.data) THEN "inc"
    ELSE IF op.dimLength = 1 /\ op.decs < Len(op.data) THEN "dec"
    ELSE "copy"

\* setGlobalVarWithElemDims up to the loops: nothing for a slot without an
\* address; dimLength /= sizeof(int); rsAssert(dimLength == 1).
SetGlobalVarWithElemDims(i, slot, data, dimLength, a) ==
    /\ ~crashed
    /\ pc[i] = "ready"
    /\ slot \in VarSlots(i)
    /\ Mapped(mScriptSO[i])
    /\ elemOp.phase \in {"idle", "done"}
    /\ \A o \in Objects : refs[o] \in 1..MaxRefs
    /\ a \in rsAssert(dimLength \div 4 = 1)
    /\ LET destPtr == table[i].mFieldAddress[slot + 1]
           op == [NoElemOp EXCEPT !.script = i, !.slot = slot, !.data = data,
                                  !.dimLength = dimLength \div 4, !.start = refs]
       IN  IF destPtr = NULLADDR
           THEN /\ elemOp' = [op EXCEPT !.phase = "done", !.data = <<>>,
                                         !.start = NoElemOp.start]
                /\ crashed' = FALSE
           ELSE /\ elemOp' =
                      [op EXCEPT !.phase = IF a = "abort" THEN "aborted" ELSE "run",
                                 !.old = [k \in 1..Len(data) |->
                                             ElemAt(memory[mScriptSO[i]][destPtr], k)]]
                /\ crashed' = (a = "abort")
    /\ UNCHANGED <<loadedVars, mtls, launch, invokeVars, refs, mBoundAllocs, lastBind,
                   cleared, caller, compile>>

\* One pass of a loop of setGlobalVarWithElemDims, or its memcpy.
ElemStep(i) ==
    /\ ~crashed
    /\ elemOp.phase = "run"
    /\ elemOp.script = i
    /\ LET destPtr == table[i].mFieldAddress[elemOp.slot + 1]
           value == memory[mScriptSO[i]][destPtr]
           step == NextElemStep(elemOp)
       IN  CASE step = "inc" ->
                  /\ refs' = incRefs(refs, elemOp.data[elemOp.incs + 1])
                  /\ elemOp' = [elemOp EXCEPT !.incs = @ + 1]
                  /\ UNCHANGED memory
             [] step = "dec" ->
                  /\ refs' = decRefs(refs, ElemAt(value, elemOp.decs + 1))
                  /\ elemOp' = [elemOp EXCEPT !.decs = @ + 1]
                  /\ UNCHANGED memory
             [] OTHER ->
                  /\ memory' = [memory EXCEPT ![mScriptSO[i]][destPtr] =
                                    CopyElems(value, elemOp.data)]
                  /\ elemOp' = [NoElemOp EXCEPT !.phase = "done", !.copied = TRUE,
                                                !.script = i, !.slot = elemOp.slot,
                                                !.data = elemOp.data,
                                                !.same = (elemOp.data = elemOp.old),
                                                !.dimLength = elemOp.dimLength]
                  /\ UNCHANGED refs
    /\ UNCHANGED <<module, files, symlinks, cacheDirState, solist, nextHandle,
                   LoadedLibraries, mutex, crashed, pc, resName, origName,
                   newName, loaded, mScriptSO, members, table, news, deletes,
                   dlcloses, directMaps, unlinkFailed, aliasFailed, faults,
                   mtls, launch, invokeVars, mBoundAllocs, lastBind, cleared, caller, compile>>

(***************************************************************************)
(* setGlobalBind and getAllocationForPointer.                              *)
(***************************************************************************)
\* No setGlobalBind call has been made.
NoBind == [called |-> FALSE, script |-> 0, slot |-> 0, data |-> NoAllocation]

\* The buffers a caller binds: two with one storage pointer, one with
\* another, one without storage, and none.
BindBuffers ==
    {Allocation(1, 1, 1, 1), Allocation(1, 2, 1, 1), Allocation(2, 1, 1, 1),
     UnbackedAllocation, NoAllocation}

\* setGlobalBind: nothing for a slot without an address; else the buffer is
\* recorded and its storage pointer, or NULL, copied into the variable.
setGlobalBind(i, slot, data) ==
    LET destPtr == table[i].mFieldAddress[slot + 1]
        ptr == IF data.present THEN data.mallocPtr ELSE NULLPTR
    IN  IF destPtr = NULLADDR THEN UNCHANGED <<mBoundAllocs, memory>>
        ELSE /\ mBoundAllocs' = [mBoundAllocs EXCEPT ![i][slot] = data]
             /\ memory' = [memory EXCEPT ![mScriptSO[i]][destPtr] = ptr]

SetGlobalBind(i, slot, data) ==
    /\ ~crashed
    /\ pc[i] = "ready"
    /\ slot \in VarSlots(i)
    /\ Mapped(mScriptSO[i])
    /\ setGlobalBind(i, slot, data)
    /\ lastBind' = [called |-> TRUE, script |-> i, slot |-> slot, data |-> data]
    /\ UNCHANGED <<module, files, symlinks, cacheDirState, solist, nextHandle,
                   LoadedLibraries, mutex, crashed, pc, resName, origName,
                   newName, loaded, mScriptSO, members, table, news, deletes,
                   dlcloses, directMaps, unlinkFailed, aliasFailed, faults,
                   mtls, launch, invokeVars, refs, elemOp, cleared, caller, compile>>

\* The loop of getAllocationForPointer made to return the last bound buffer
\* with the pointer.
RECURSIVE LastBoundFrom(_, _, _)
LastBoundFrom(i, ptr, ct) ==
    IF ct >= table[i].mExportedVariableCount THEN NoAllocation
    ELSE LET a == mBoundAllocs[i][ct]
             later == LastBoundFrom(i, ptr, ct + 1)
         IN  IF later.present THEN later
             ELSE IF a.present /\ a.mallocPtr = ptr THEN a
             ELSE NoAllocation

\* The loop of getAllocationForPointer from slot ct: the first bound buffer
\* with the pointer, NULL when the slots are used up.
RECURSIVE FirstBoundFrom(_, _, _)
FirstBoundFrom(i, ptr, ct) ==
    IF ct >= table[i].mExportedVariableCount THEN NoAllocation
    ELSE LET a == mBoundAllocs[i][ct]
         IN  IF a.present /\ a.mallocPtr = ptr THEN a
             ELSE FirstBoundFrom(i, ptr, ct + 1)

getAllocationForPointer(i, ptr) ==
    IF ptr = NULLPTR THEN NoAllocation ELSE FirstBoundFrom(i, ptr, 0)

(***************************************************************************)
(* The other invocations.  While the native code of one is running it may  *)
(* come back into the runtime and start another, of any loaded script.     *)
(***************************************************************************)
\* The wrappers that store the script with setTLS around the native call.
TlsKinds == {"root", "function", "forEach"}

\* The start of an invocation of the given kind: the frame, and setTLS(this)
\* in the wrappers that have it.
Enter(i, kind) ==
    /\ ~crashed
    /\ pc[i] = "ready"
    /\ Len(stack) < MaxDepth
    /\ stack' = Append(stack, Frame(i, kind))
    /\ IF kind \in TlsKinds THEN setTLS(i) ELSE UNCHANGED tls
    /\ UNCHANGED <<loaderVars, mtls, launch, dispatch, lastExit, bindVars, cleared, caller, compile>>

\* An invocation wrapper calls through an entry point that is NULL: the
\* process faults.
NullCall(i, kind) ==
    /\ ~crashed
    /\ pc[i] = "ready"
    /\ Len(stack) < MaxDepth
    /\ stack' = Append(stack, Frame(i, kind))
    /\ IF kind \in TlsKinds THEN setTLS(i) ELSE UNCHANGED tls
    /\ crashed' = TRUE
    /\ UNCHANGED <<loadedVars, mtls, launch, dispatch, lastExit, bindVars, cleared,
                   caller, compile>>

\* invokeRoot: oldTLS = setTLS(this); mRoot(), with no test of mRoot
InvokeRoot(i) ==
    IF table[i].mRoot # NULLADDR THEN Enter(i, "root") ELSE NullCall(i, "root")

\* invokeInit: if (mInit) mInit(), with no setTLS
InvokeInit(i) ==
    /\ table[i].mInit # NULLADDR
    /\ Enter(i, "init")

\* invokeFreeChildren: if (mFreeChildren) mFreeChildren(), with no setTLS
InvokeFreeChildren(i) ==
    /\ table[i].mFreeChildren # NULLADDR
    /\ Enter(i, "freeChildren")

\* invokeFunction: oldTLS = setTLS(this); mInvokeFunctions[slot](...)
InvokeFunction(i, slot) ==
    /\ slot < Len(table[i].mInvokeFunctions)
    /\ Enter(i, "function")

\* The native call of the innermost invocation returns: setTLS(oldTLS) in
\* the wrappers that have it.
NativeReturn ==
    /\ ~crashed
    /\ stack # <<>>
    /\ stack[Len(stack)].kind # "forEach"
    /\ LET top == stack[Len(stack)]
           after == IF top.kind \in TlsKinds THEN top.oldTLS ELSE tls
       IN  /\ setTLS(after)
           /\ lastExit' = [kind |-> top.kind, clean |-> TRUE,
                           before |-> top.oldTLS, after |-> after]
    /\ stack' = SubSeq(stack, 1, Len(stack) - 1)
    /\ UNCHANGED <<loaderVars, mtls, launch, dispatch, bindVars, cleared, caller, compile>>

\* The native call of the innermost invocation is left without returning
\* (an exception, a longjmp): the statements after the call are not run.
NativeUnwind ==
    /\ ~crashed
    /\ stack # <<>>
    /\ LET top == stack[Len(stack)]
       IN  /\ lastExit' = [kind |-> top.kind, clean |-> FALSE,
                           before |-> top.oldTLS, after |-> tls]
           /\ dispatch' = IF top.kind = "forEach"
                          THEN [dispatch EXCEPT !.stage = "unwound", !.dispatched = TRUE]
                          ELSE dispatch
    /\ stack' = SubSeq(stack, 1, Len(stack) - 1)
    /\ UNCHANGED <<loaderVars, mtls, launch, tls, bindVars, cleared, caller, compile>>

(***************************************************************************)
(* init in the build with the on-device compiler, up to the executable.    *)
(* The compiler driver, the metadata extractor and the system properties   *)
(* are outside the file: what they return is an input.                     *)
(***************************************************************************)
\* property_get(key, buf, default): the value of the property, the default
\* when the property is not set or empty.
property_get(props, key, default) == IF props[key] = "" THEN default ELSE props[key]

\* is_force_recompile looking for "1" only.
is_force_recompileOnlyOne(props) ==
    IF property_get(props, "debug.rs.precision", "") # "" THEN TRUE
    ELSE property_get(props, "debug.rs.forcerecompile", "0") = "1"

is_force_recompile(props) ==
    IF property_get(props, "debug.rs.precision", "") # "" THEN TRUE
    ELSE LET buf == property_get(props, "debug.rs.forcerecompile", "0")
         IN  buf = "1" \/ buf = "true"

\* The system properties init reads.
Properties ==
    {[p \in {"debug.rs.precision", "debug.rs.forcerecompile"} |->
         IF p = "debug.rs.precision" THEN precision ELSE force] :
        precision \in {"", "rs_fp_relaxed"}, force \in {"", "0", "1", "true"}}

\* What init meets when it comes to the compiler driver: the context, the
\* properties, and what the compiler driver returns.
DriverInputs ==
    [alloc : {"ok"}, extract : {TRUE}, prec : {"RS_FP_Full"},
     debugContext : BOOLEAN, props : Properties,
     cached : BOOLEAN, built : BOOLEAN, loads : BOOLEAN]

\* What init meets: the same, or an allocation that fails, metadata that
\* cannot be extracted, or a precision it does not know.
CompileInputs ==
    DriverInputs
    \cup {[alloc |-> f[1], extract |-> f[2], prec |-> f[3], debugContext |-> FALSE,
           props |-> [p \in {"debug.rs.precision", "debug.rs.forcerecompile"} |-> ""],
           cached |-> FALSE, built |-> TRUE, loads |-> TRUE] :
             f \in {<<"noContext", TRUE, "RS_FP_Full">>,
                     <<"noDriver", TRUE, "RS_FP_Full">>,
                     <<"ok", FALSE, "RS_FP_Full">>,
                     <<"ok", TRUE, "RS_FP_Relaxed">>,
                     <<"ok", TRUE, "unknown">>}}

\* The outcome of init: what it returned, whether it called unlockMutex, the
\* calls of the compiler driver in order, and whether it has an executable.
CompileReturn(in, ret, unlocked, calls, exec) ==
    [done |-> TRUE, in |-> in, ret |-> ret, unlocked |-> unlocked,
     calls |-> calls, exec |-> exec]

NoCompile ==
    [done |-> FALSE, in |-> <<>>, ret |-> FALSE, unlocked |-> FALSE,
     calls |-> <<>>, exec |-> FALSE]

\* if (exec == NULL) { built = build(...); if (built) exec = loadScript(...) }
\* and the test of exec that follows.
CompileBuild(in, calls, exec) ==
    LET calls2 == IF exec THEN calls
                  ELSE IF in.built THEN calls \o <<"build", "loadScript">>
                  ELSE calls \o <<"build">>
        exec2 == exec \/ (in.built /\ in.loads)
    IN  CompileReturn(in, exec2, TRUE, calls2, exec2)

\* The cache lookup, skipped for a debug context and when is_force_recompile.
CompileLookup(in) ==
    IF in.debugContext THEN CompileBuild(in, <<>>, FALSE)
    ELSE IF ~is_force_recompile(in.props)
    THEN CompileBuild(in, <<"loadScript">>, in.cached)
    ELSE CompileBuild(in, <<>>, FALSE)

\* init from after lockMutex to the test of exec.
CompileInit(in) ==
    IF in.alloc # "ok" THEN CompileReturn(in, FALSE, TRUE, <<>>, FALSE)
    ELSE IF ~in.extract THEN CompileReturn(in, FALSE, FALSE, <<>>, FALSE)
    ELSE IF in.prec = "unknown" THEN CompileReturn(in, FALSE, FALSE, <<>>, FALSE)
    ELSE CompileLookup(in)

\* init of instance i in this build, from lockMutex to its return.
InitCompiled(i, in) ==
    /\ ~crashed
    /\ pc[i] = "init"
    /\ mutex = 0
    /\ compile' = CompileInit(in)
    /\ mutex' = IF compile'.unlocked THEN 0 ELSE i
    /\ pc' = [pc EXCEPT ![i] = IF compile'.ret THEN "ready" ELSE "failed"]
    /\ UNCHANGED <<module, files, symlinks, cacheDirState, solist, nextHandle,
                   memory, LoadedLibraries, crashed, resName, origName, newName,
                   loaded, mScriptSO, members, table, news, deletes, dlcloses,
                   directMaps, unlinkFailed, aliasFailed, faults, mtls, launch,
                   invokeVars, bindVars, cleared, caller>>

(***************************************************************************)
(* The loader specification: NumInstances scripts are created from one     *)
(* module by concurrent threads, used and destroyed.                       *)
(***************************************************************************)
AllNames ==
    UNION {{ScriptSOName(r), ScriptSONameSystem(r)} : r \in ResNames}

\* Where the module is installed: the application's library directory, the
\* system directory, or both.
InstalledFiles ==
    {{ScriptSOName(r) : r \in ResNames},
     {ScriptSONameSystem(r) : r \in ResNames},
     AllNames}

InitLaunch ==
    /\ mtls = ZeroLaunchStruct
    /\ launch = NoLaunch
    /\ dispatch = NoDispatch
    /\ tls = 0
    /\ stack = <<>>
    /\ lastExit = NoExit
    /\ refs = [o \in Objects |-> 1]
    /\ elemOp = NoElemOp
    /\ mBoundAllocs = [i \in Instances |-> [slot \in 0..(MaxCount - 1) |-> NoAllocation]]
    /\ lastBind = NoBind
    /\ cleared = [i \in Instances |-> NotCleared]
    /\ caller = NoCall
    /\ compile = NoCompile

InitLoader(plans, installed, dirStates) ==
    /\ module \in plans
    /\ files \in installed
    /\ symlinks = {}
    /\ cacheDirState \in dirStates
    /\ solist = {}
    /\ nextHandle = 1
    /\ memory = <<>>
    /\ LoadedLibraries = {}
    /\ mutex = 0
    /\ crashed = FALSE
    /\ pc = [i \in Instances |-> "none"]
    /\ resName = [i \in Instances |-> ""]
    /\ origName = [i \in Instances |-> ""]
    /\ newName = [i \in Instances |-> ""]
    /\ loaded = [i \in Instances |-> NULLHANDLE]
    /\ mScriptSO = [i \in Instances |-> NULLHANDLE]
    /\ members = [i \in Instances |-> {}]
    /\ table = [i \in Instances |-> NewTable]
    /\ news = [i \in Instances |-> [a \in ArrayMembers |-> 0]]
    /\ deletes = [i \in Instances |-> [a \in ArrayMembers |-> 0]]
    /\ dlcloses = [i \in Instances |-> 0]
    /\ directMaps = [n \in AllNames |-> 0]
    /\ unlinkFailed = {}
    /\ faults = 0
    /\ aliasFailed = [i \in Instances |-> {}]

Init ==
    /\ InitLoader(LoaderPlans, InstalledFiles, {"rwx", "missing", "denied"})
    /\ InitLaunch

\* The steps of the thread that creates, loads, uses and destroys instance i.
LoaderStep(i) ==
    \/ \E res \in ResNames : Construct(i, res)
    \/ InitLock(i)
    \/ HelperAccess(i)
    \/ \E mapOk \in Outcomes : HelperDirect(i, mapOk)
    \/ \E k \in RandomSeqs : HelperEnsureDir(i, k)
    \/ \E ioOk \in Outcomes : HelperSymlink(i, ioOk)
    \/ \E mapOk \in Outcomes : HelperDlopenAlias(i, mapOk)
    \/ \E ioOk \in Outcomes : HelperUnlink(i, ioOk)
    \/ InitParse(i)
    \/ InitSuccess(i)
    \/ InitErrorUnlock(i)
    \/ InitErrorCleanup(i)
    \/ Destroy(i)
    \/ \E slot \in 0..(MaxCount - 1), data \in Values : SetGlobalVar(i, slot, data)

Next == \E i \in Instances : LoaderStep(i)

Spec == Init /\ [][Next]_vars

\* The same with one instance fewer: the runs in which the last instance is
\* never constructed.
NextFewer == \E i \in 1..(NumInstances - 1) : LoaderStep(i)

SpecFewer == Init /\ [][NextFewer]_vars

(***************************************************************************)
(* The parser specification: one script is created from a module whose     *)
(* descriptor is any of the generated ones.                                *)
(***************************************************************************)
InitParser ==
    /\ InitLoader(Plans, {{ScriptSOName(r) : r \in ResNames}}, {"rwx"})
    /\ InitLaunch

NextParser ==
    \/ \E res \in ResNames : Construct(1, res)
    \/ InitLock(1)
    \/ HelperAccess(1)
    \/ HelperDirect(1, TRUE)
    \/ InitParse(1)
    \/ InitSuccess(1)
    \/ InitErrorUnlock(1)
    \/ InitErrorCleanup(1)

SpecParser == InitParser /\ [][NextParser]_vars

(***************************************************************************)
(* The teardown specification: one script is created from a module whose   *)
(* descriptor is any of the generated ones, and destroyed.                 *)
(***************************************************************************)
NextTeardown ==
    \/ \E res \in ResNames : Construct(1, res)
    \/ InitLock(1)
    \/ HelperAccess(1)
    \/ HelperDirect(1, TRUE)
    \/ InitParse(1)
    \/ InitSuccess(1)
    \/ InitErrorUnlock(1)
    \/ InitErrorCleanup(1)
    \/ Destroy(1)

SpecTeardown == InitParser /\ [][NextTeardown]_vars

(***************************************************************************)
(* The launch specification: one script is loaded and one ForEach launch   *)
(* is set up on it, with any of the generated arguments.                   *)
(***************************************************************************)
InitLauncher ==
    /\ InitLoader({GoodPlan}, {{ScriptSOName(r) : r \in ResNames}}, {"rwx"})
    /\ InitLaunch

NextLauncher ==
    \/ \E res \in ResNames : Construct(1, res)
    \/ InitLock(1)
    \/ HelperAccess(1)
    \/ HelperDirect(1, TRUE)
    \/ InitParse(1)
    \/ InitSuccess(1)
    \/ ForEachMtlsSetup(1)

SpecLauncher == InitLauncher /\ [][NextLauncher]_vars

(***************************************************************************)
(* The dispatch specification: one script is loaded and one invokeForEach  *)
(* call is made on it, with any of the slots, buffers and sub-regions.     *)
(***************************************************************************)
NextDispatch ==
    \/ \E res \in ResNames : Construct(1, res)
    \/ InitLock(1)
    \/ HelperAccess(1)
    \/ HelperDirect(1, TRUE)
    \/ InitParse(1)
    \/ InitSuccess(1)
    \/ InvokeForEach(1, DispatchPairs, DispatchCalls)
    \/ \E survives \in BOOLEAN : InvokeForEachReturn(1, survives)

SpecDispatch == InitLauncher /\ [][NextDispatch]_vars

(***************************************************************************)
(* The invocation specification: two scripts are loaded from a module with *)
(* one function and invoked on one thread, also from inside one another.   *)
(***************************************************************************)
InvokePlan == [GoodPlan EXCEPT !.count["func"] = 1]

Invokers == {1, 2}

InitInvoke ==
    /\ InitLoader({InvokePlan}, {{ScriptSOName(r) : r \in ResNames}}, {"rwx"})
    /\ InitLaunch

\* The thread is in no invocation; no init call of the thread is under way.
ThreadIdle == stack = <<>>

NoInitUnderWay == \A j \in Invokers : pc[j] \in {"none", "ready"}

\* The steps of init, which the thread runs from the call to the return.
InvokerLoads(i) ==
    \/ \E res \in ResNames : NoInitUnderWay /\ Construct(i, res)
    \/ InitLock(i)
    \/ HelperAccess(i)
    \/ HelperDirect(i, TRUE)
    \/ \E k \in RandomSeqs : HelperEnsureDir(i, k)
    \/ HelperSymlink(i, TRUE)
    \/ HelperDlopenAlias(i, TRUE)
    \/ HelperUnlink(i, TRUE)
    \/ InitParse(i)
    \/ InitSuccess(i)

\* The invocations the thread starts, from its top level or from inside the
\* native call of another.
InvokerCalls(i) ==
    \/ InvokeRoot(i)
    \/ InvokeInit(i)
    \/ InvokeFreeChildren(i)
    \/ \E slot \in 0..(MaxCount - 1) : InvokeFunction(i, slot)
    \/ InvokeForEach(i, {<<Allocation(1, 1, 1, 0), NoAllocation>>}, {NoScriptCall})

NextInvoke ==
    \/ \E i \in Invokers : ThreadIdle /\ InvokerLoads(i)
    \/ \E i \in Invokers : NoInitUnderWay /\ InvokerCalls(i)
    \/ \E i \in Invokers, survives \in BOOLEAN : InvokeForEachReturn(i, survives)
    \/ NativeReturn
    \/ NativeUnwind

SpecInvoke == InitInvoke /\ [][NextInvoke]_vars

(***************************************************************************)
(* The entry point specification: the same, for a module with root, init   *)
(* and .rs.dtor and for one with kernels only.                             *)
(***************************************************************************)
EntrylessPlan == [InvokePlan EXCEPT !.defect = [kind |-> "noentry", sec |-> "forEach"]]

InitEntry ==
    /\ InitLoader({InvokePlan, EntrylessPlan}, {{ScriptSOName(r) : r \in ResNames}}, {"rwx"})
    /\ InitLaunch

SpecEntry == InitEntry /\ [][NextInvoke]_vars

(***************************************************************************)
(* The element specification: one script is loaded and its variable is set *)
(* with setGlobalVarWithElemDims, any number of times.                     *)
(***************************************************************************)
NextElems ==
    \/ \E res \in ResNames : Construct(1, res)
    \/ InitLock(1)
    \/ HelperAccess(1)
    \/ HelperDirect(1, TRUE)
    \/ InitParse(1)
    \/ InitSuccess(1)
    \/ /\ elemOp.phase # "run"
       /\ \E slot \in 0..(MaxCount - 1), data \in ElemData, dimLength \in DimLengths,
             a \in {"pass", "logged", "abort"} :
              SetGlobalVarWithElemDims(1, slot, data, dimLength, a)
    \/ ElemStep(1)

SpecElems == InitLauncher /\ [][NextElems]_vars

(***************************************************************************)
(* The binding specification: one script is loaded from a module with two  *)
(* variables, of which the module may export one only, and buffers are     *)
(* bound to its slots.                                                     *)
(***************************************************************************)
BindPlan == [GoodPlan EXCEPT !.count["var"] = 2]

BindPlans ==
    {BindPlan} \cup {[BindPlan EXCEPT !.defect = [kind |-> k, sec |-> "var"]] :
                        k \in {"nosym0", "nosym1"}}

InitBinder ==
    /\ InitLoader(BindPlans, {{ScriptSOName(r) : r \in ResNames}}, {"rwx"})
    /\ InitLaunch

NextBinder ==
    \/ \E res \in ResNames : Construct(1, res)
    \/ InitLock(1)
    \/ HelperAccess(1)
    \/ HelperDirect(1, TRUE)
    \/ InitParse(1)
    \/ InitSuccess(1)
    \/ \E slot \in 0..(MaxCount - 1), data \in BindBuffers : SetGlobalBind(1, slot, data)

SpecBinder == InitBinder /\ [][NextBinder]_vars

(***************************************************************************)
(* The variable specification: one script is loaded from a module with two *)
(* variables, of which the module may export one only, and a caller sets   *)
(* and gets them.                                                          *)
(***************************************************************************)
NextVariables ==
    \/ \E res \in ResNames : Construct(1, res)
    \/ InitLock(1)
    \/ HelperAccess(1)
    \/ HelperDirect(1, TRUE)
    \/ InitParse(1)
    \/ InitSuccess(1)
    \/ /\ pc[1] = "ready"
       /\ \E op \in {"set", "get"}, slot \in 0..(MaxCount - 1), data \in Values :
              CallerChooses(op, slot, data)
    \/ caller.op = "set" /\ SetGlobalVar(1, caller.slot, caller.data)
    \/ caller.op = "get" /\ GetGlobalVar(1, caller.slot)

SpecVariables == InitBinder /\ [][NextVariables]_vars

(***************************************************************************)
(* The compiler specification: scripts are created and loaded in the build *)
(* with the on-device compiler, one after another.                         *)
(***************************************************************************)
Compilers == {1, 2}

NextCompiler ==
    \/ \E i \in Compilers, res \in ResNames : Construct(i, res)
    \/ \E i \in Compilers :
          /\ pc[i] = "init"
          /\ \E in \in CompileInputs : InitCompiled(i, in)

SpecCompiler == InitLauncher /\ [][NextCompiler]_vars

(***************************************************************************)
(* Properties of the loader.                                               *)
(***************************************************************************)
PrimaryName == ScriptSOName("foo")

SystemName == ScriptSONameSystem("foo")

\* The steps of loadSharedLibrary and loadSOHelper.
HelperPcs == {"helper", "direct", "ensureDir", "symlink", "dlopenAlias", "unlink"}

\* The steps between the creation of the alias and its removal.
AliasPcs == {"dlopenAlias", "unlink"}

\* The instance's handle is a mapping made under an alias name.
ViaAlias(i) ==
    \E l \in solist : l.handle = mScriptSO[i] /\ l.name \notin AllNames

\* C1: no two instances whose load succeeded hold the same loaded handle, so
\* a write to a global variable through one is never read through another.
InstancesHoldDistinctHandles ==
    \A a, b \in Instances :
        a # b /\ pc[a] = "ready" /\ pc[b] = "ready" => mScriptSO[a] # mScriptSO[b]

\* C2: over the life of an instance, teardown included, no symbol-table
\* array is released more often than it was allocated and the handle is
\* closed at most once.
ReleasedAtMostOnce ==
    \A i \in Instances :
        /\ \A a \in ArrayMembers : deletes[i][a] <= news[i][a]
        /\ dlcloses[i] <= 1

\* C3: the steps of the registry lookup and insert and of the alias
\* creation, mapping and removal are taken only by the thread that holds
\* the init mutex, so two loads are never inside them together.
LoaderSectionExclusive ==
    /\ \A i \in Instances : pc[i] \in HelperPcs => mutex = i
    /\ \A i, j \in Instances : pc[i] \in HelperPcs /\ pc[j] \in HelperPcs => i = j

\* One thread is past the access check, at the registry or the alias steps,
\* while another has been constructed and is about to enter init.
LoaderSectionContended ==
    \E i, j \in Instances : pc[i] \in HelperPcs \ {"helper"} /\ pc[j] = "init"

\* C4: a path is mapped by its own name at most once in the process; it is
\* in the registry from then on, and a load that finds it in the registry
\* never takes the direct step.
DirectAtMostOnce ==
    /\ \A n \in AllNames : directMaps[n] <= 1
    /\ \A n \in AllNames : directMaps[n] = 1 => n \in LoadedLibraries
    /\ \A i \in Instances : pc[i] = "direct" => origName[i] \notin LoadedLibraries

\* The first instance has been torn down and a later one has loaded the
\* same path through an alias.
AliasedAfterTeardown ==
    \E i \in Instances :
        /\ pc[1] = "destroyed"
        /\ directMaps[PrimaryName] = 1
        /\ pc[i] = "ready"
        /\ ViaAlias(i)

AliasFailureFailsLoad ==
    \A i \in Instances : aliasFailed[i] # {} => mScriptSO[i] = NULLHANDLE

\* The alias of instance i cannot be created in this step.
AliasFailureStep(i) ==
    /\ pc[i] \in {"ensureDir", "symlink"}
    /\ aliasFailed'[i] # aliasFailed[i]

\* What loadSharedLibrary does with the NULL of a failed alias creation: from
\* the first name it goes on to the /system/lib name, from that name it
\* returns no handle.
AliasFailureOutcome(i) ==
    IF origName[i] = ScriptSOName(resName[i])
    THEN /\ pc'[i] = "helper"
         /\ origName'[i] = ScriptSONameSystem(resName[i])
    ELSE /\ pc'[i] = "parse"
         /\ mScriptSO'[i] = NULLHANDLE

\* C6: when the alias cannot be created for the first name, the load goes
\* on to the /system/lib name; when it cannot be created for that name, the
\* load returns no handle and init fails.
AliasFailureFallsBack ==
    /\ [][\A i \in Instances : AliasFailureStep(i) => AliasFailureOutcome(i)]_vars
    /\ [](\A i \in Instances :
             SystemName \in aliasFailed[i] =>
                 mScriptSO[i] = NULLHANDLE /\ pc[i] \notin {"unlock", "ready"})

\* The alias could not be created for the first name, and the load
\* succeeded from the /system/lib name.
FallbackLoaded ==
    \E i \in Instances :
        /\ PrimaryName \in aliasFailed[i]
        /\ pc[i] = "ready"
        /\ mScriptSO[i] # NULLHANDLE

(***************************************************************************)
(* Properties of the parser.                                               *)
(***************************************************************************)
\* init returned true, or is about to.
LoadSucceeds(i) == pc[i] \in {"unlock", "ready"}

\* init jumped to its error label.
LoadFails(i) == pc[i] \in {"error", "cleanup", "failed"}

\* The descriptor lacks a count line, or has one that is not its prefix
\* and a number.
CountLineMissing(plan) ==
    plan.defect.kind \in CountDefects \cup EndDefects \cup {"noinfo"}

\* C7: a load whose descriptor lacks one of the four count lines, or has
\* one that does not read as its prefix and a number, does not succeed.
MissingCountLineFails ==
    CountLineMissing(module) => ~LoadSucceeds(1)

\* The descriptor has a name line longer than MAXLINE.
OverLongName(plan) ==
    /\ plan.defect.kind \in {"long", "longsplit"}
    /\ plan.count[plan.defect.sec] >= 1

\* C8: a load whose descriptor has a variable, function or kernel name line
\* longer than MAXLINE does not succeed.
OverLongNameFails ==
    OverLongName(module) => ~LoadSucceeds(1)

\* The module lacks the expanded variant of kernel slot j and has no other
\* defect.
KernelMissing(plan, j) ==
    /\ plan.defect = [kind |-> "nosym" \o Digit(j), sec |-> "forEach"]
    /\ plan.count["forEach"] > j

\* C9: a missing expanded variant of kernel slot 0 does not fail the load,
\* one of a later slot does, and after a successful load every kernel slot
\* other than 0 holds a function pointer that is not NULL.
KernelSlotsResolved ==
    /\ KernelMissing(module, 0) => ~LoadFails(1)
    /\ KernelMissing(module, 1) => ~LoadSucceeds(1)
    /\ LoadSucceeds(1) =>
           \A k \in 2..Len(table[1].mForEachFunctions) :
               table[1].mForEachFunctions[k] # NULLADDR

\* A module that declares two kernels and lacks the expanded variant of
\* slot 0 has been loaded: slot 0 is NULL, slot 1 is not.
RootKernelUnexpanded ==
    /\ KernelMissing(module, 0)
    /\ pc[1] = "ready"
    /\ Len(table[1].mForEachFunctions) = 2
    /\ table[1].mForEachFunctions[1] = NULLADDR
    /\ table[1].mForEachFunctions[2] # NULLADDR

\* The positions of the newlines of the memory at ".rs.info", and the
\* position at which line k of the descriptor starts, 0 when it has none.
Newlines(mem) ==
    {p \in 1..Len(mem) : mem[p] = NL /\ \A q \in 1..p : mem[q] # NUL}

LineStart(mem, k) ==
    IF k = 1 THEN 1
    ELSE IF Cardinality(Newlines(mem)) < k - 1 THEN 0
    ELSE 1 + CHOOSE p \in Newlines(mem) :
                 Cardinality({q \in Newlines(mem) : q <= p}) = k - 1

LineText(mem, k) == SubSeq(mem, LineStart(mem, k), LineStart(mem, k + 1) - 1)

\* C26: after a load that succeeded, the parse made one read for each count
\* line and each declared name, the k-th read began at the k-th line of the
\* descriptor, so that slot i of a section was filled from line i of the
\* section, and the variables marked as objects are those below varCount
\* that a line of the object slot section names.
NameLinesReadInOrder ==
    LoadSucceeds(1) =>
        LET m == PlanModule(module)
            st == ParseInfo(m.mem, m.syms, m.rsInfo)
            names == st.varCount + st.funcCount + st.forEachCount
        IN  /\ Len(st.reads) = 4 + names + st.objectSlotCount
            /\ \A k \in 1..Len(st.reads) : st.reads[k].at = LineStart(m.mem, k)
            /\ \A v \in 0..(st.varCount - 1) :
                   st.fieldIsObject[v + 1] <=>
                       \E j \in 1..st.objectSlotCount :
                           LineText(m.mem, 4 + names + j) = <<Digit(v), NL>>

\* The position of the NUL that ends the descriptor.
Terminator(mem) == MinOf({p \in 1..(Len(mem) + 1) : MemAt(mem, p) = NUL})

\* C27: over the reads of a parse, strgets is never called with a read
\* pointer beyond the NUL that ends the descriptor and never leaves it
\* there; a read at the NUL returns no line.
ReadPointerStaysInDescriptor ==
    pc[1] \in {"unlock", "ready", "error", "cleanup", "failed"}
        /\ mScriptSO[1] # NULLHANDLE /\ PlanModule(module).rsInfo # NULLPTR =>
        LET m == PlanModule(module)
            st == ParseInfo(m.mem, m.syms, m.rsInfo)
        IN  /\ st.pstr <= Terminator(m.mem)
            /\ \A k \in 1..Len(st.reads) :
                   /\ st.reads[k].at <= Terminator(m.mem)
                   /\ st.reads[k].at = Terminator(m.mem) => ~st.reads[k].ret

(***************************************************************************)
(* Properties of the launch setup.                                         *)
(***************************************************************************)
\* The buffer the dimensions are taken from.
Governing == IF launch.ain.present THEN launch.ain ELSE launch.aout

\* forEachMtlsSetup has run and reported no error.
SetupAccepted == launch.stage = "setup" /\ launch.error = RS_ERROR_NONE

\* No sub-region, or end 0 on every axis.
Unrestricted(sc) ==
    ~sc.present \/ (sc.xEnd = 0 /\ sc.yEnd = 0 /\ sc.zEnd = 0)

AtLeastOne(n) == IF n >= 1 THEN n ELSE 1

\* C10: with an unrestricted sub-region the domain of the launch struct
\* starts at (0,0,0) and ends at (max(X,1), max(Y,1), max(Z,1)), X, Y, Z
\* the dimensions of the governing buffer.
UnrestrictedDomainIsFull ==
    SetupAccepted /\ Unrestricted(launch.sc) =>
        /\ mtls.xStart = 0 /\ mtls.yStart = 0 /\ mtls.zStart = 0
        /\ mtls.xEnd = AtLeastOne(Governing.dimX)
        /\ mtls.yEnd = AtLeastOne(Governing.dimY)
        /\ mtls.zEnd = AtLeastOne(Governing.dimZ)

\* A sub-region with end 0 on every axis and a start that is not 0, on a
\* buffer with a dimension that is 0 and one that is larger than 1.
UnrestrictedWithStart ==
    /\ SetupAccepted
    /\ launch.sc.present
    /\ Unrestricted(launch.sc)
    /\ launch.sc.xStart > 0
    /\ Governing.dimX > 1
    /\ Governing.dimY = 0
    /\ mtls.yEnd = 1

\* The sub-region has start < end <= extent on every axis.
WithinExtent(sc, a) ==
    /\ sc.present
    /\ sc.xStart < sc.xEnd /\ sc.xEnd <= a.dimX
    /\ sc.yStart < sc.yEnd /\ sc.yEnd <= a.dimY
    /\ sc.zStart < sc.zEnd /\ sc.zEnd <= a.dimZ

\* C11: for a sub-region with start < end <= extent on every axis, the start
\* and the end of the launch struct on each axis are those of the caller.
SubRegionIsKept ==
    SetupAccepted /\ WithinExtent(launch.sc, Governing) =>
        /\ mtls.xStart = launch.sc.xStart /\ mtls.xEnd = launch.sc.xEnd
        /\ mtls.yStart = launch.sc.yStart /\ mtls.yEnd = launch.sc.yEnd
        /\ mtls.zStart = launch.sc.zStart /\ mtls.zEnd = launch.sc.zEnd

\* A sub-region that starts after 0 on the x axis and ends before the extent
\* on the y axis has been set up.
SubRegionInside ==
    /\ SetupAccepted
    /\ WithinExtent(launch.sc, Governing)
    /\ launch.sc.xStart > 0
    /\ launch.sc.yEnd < Governing.dimY
    /\ mtls.xStart = launch.sc.xStart
    /\ mtls.yEnd = launch.sc.yEnd

\* On some axis the sub-region has an end that is not 0 and, clamped to the
\* extent, a start that is not below the end.
EmptyAfterClamping(sc, a) ==
    /\ sc.present
    /\ \/ sc.xEnd # 0 /\ rsMin(a.dimX, sc.xStart) >= rsMin(a.dimX, sc.xEnd)
       \/ sc.yEnd # 0 /\ rsMin(a.dimY, sc.yStart) >= rsMin(a.dimY, sc.yEnd)
       \/ sc.zEnd # 0 /\ rsMin(a.dimZ, sc.zStart) >= rsMin(a.dimZ, sc.zEnd)

\* C13 as stated: in every launch struct of a setup that reported no error
\* the end of each axis is at least 1.
EndBoundsAtLeastOne ==
    SetupAccepted => mtls.xEnd >= 1 /\ mtls.yEnd >= 1 /\ mtls.zEnd >= 1

\* C13: in the launch struct of a setup that reported no error and whose
\* sub-region is not empty after clamping, the end of each axis is at least
\* 1, also on an axis whose dimension is 0.
EndBoundsAtLeastOneUnlessEmpty ==
    SetupAccepted /\ ~EmptyAfterClamping(launch.sc, Governing) =>
        mtls.xEnd >= 1 /\ mtls.yEnd >= 1 /\ mtls.zEnd >= 1

\* A sub-region restricted on the x axis, on a buffer whose y and z
\* dimensions are 0: the ends of y and z are 1.
ScalarAxesFloored ==
    /\ SetupAccepted
    /\ launch.sc.present
    /\ launch.sc.xEnd # 0
    /\ ~EmptyAfterClamping(launch.sc, Governing)
    /\ Governing.dimY = 0 /\ Governing.dimZ = 0
    /\ mtls.yEnd = 1 /\ mtls.zEnd = 1

\* On each axis whose end the caller gave as 0 the launch struct has the
\* whole extent, from 0 to the dimension or 1.
ZeroEndAxesAreFull ==
    /\ launch.sc.xEnd = 0 => mtls.xStart = 0 /\ mtls.xEnd = AtLeastOne(Governing.dimX)
    /\ launch.sc.yEnd = 0 => mtls.yStart = 0 /\ mtls.yEnd = AtLeastOne(Governing.dimY)
    /\ launch.sc.zEnd = 0 => mtls.zStart = 0 /\ mtls.zEnd = AtLeastOne(Governing.dimZ)

\* C28: as stated: on an axis whose end the caller gave as 0 the domain is
\* the whole extent, whatever the start given for the axis and whatever the
\* sub-region on the other axes.
ZeroEndAxisIsFull ==
    SetupAccepted /\ launch.sc.present => ZeroEndAxesAreFull

\* C28: amended: the same when no axis of the sub-region is empty after
\* clamping.
ZeroEndAxisIsFullUnlessEmpty ==
    SetupAccepted /\ launch.sc.present /\ ~EmptyAfterClamping(launch.sc, Governing)
        => ZeroEndAxesAreFull

\* A sub-region restricted on the x axis, with end 0 and a start that is not
\* 0 on the z axis, on a buffer whose z dimension is 0.
ZeroEndBesideRestrictedAxis ==
    /\ SetupAccepted
    /\ launch.sc.present
    /\ launch.sc.xEnd # 0 /\ mtls.xStart < mtls.xEnd /\ mtls.xStart > 0
    /\ launch.sc.zEnd = 0 /\ launch.sc.zStart > 0
    /\ Governing.dimZ = 0
    /\ mtls.zStart = 0 /\ mtls.zEnd = 1

(***************************************************************************)
(* Properties of invokeForEach.                                            *)
(***************************************************************************)
\* A buffer is supplied and every supplied buffer has backing storage.
Validated ==
    /\ launch.ain.present \/ launch.aout.present
    /\ launch.ain.present => launch.ain.mallocPtr # NULLPTR
    /\ launch.aout.present => launch.aout.mallocPtr # NULLPTR

\* An invokeForEach call has been made.
Invoked == dispatch.stage # "idle"

RejectedLaunchIsReported ==
    Invoked /\ ~Validated =>
        /\ launch.error = RS_ERROR_BAD_SCRIPT
        /\ ~crashed
        /\ dispatch.calls = 0

\* C15: an invokeForEach call with a slot that is not below the number of
\* kernels ends in a fatal assertion: the kernel table is not read at the
\* slot, no pointer from it is in the launch struct and the dispatcher is
\* not called.
OutOfRangeSlotIsFatal ==
    Invoked /\ dispatch.slot >= Len(table[dispatch.script].mForEachFunctions) =>
        /\ dispatch.stage = "aborted"
        /\ dispatch.slot \notin dispatch.reads
        /\ dispatch.kernel = NULLADDR
        /\ ~dispatch.dispatched

\* C24: an invokeForEach call without a buffer, or with a buffer that has no
\* backing storage, ends with the setup: the kernel table is not read, the
\* assertion on the kernel is not evaluated and the launch struct is not
\* handed to the dispatcher.
RejectedLaunchStopsAtSetup ==
    Invoked /\ ~Validated =>
        /\ dispatch.reads = {}
        /\ dispatch.stage \notin {"dispatching", "done"}
        /\ ~dispatch.dispatched

(***************************************************************************)
(* Properties of the thread-local current script.                          *)
(***************************************************************************)
\* C18: while the native call of a root, init, teardown or function
\* invocation runs, the thread-local current script is the script that was
\* invoked, so a callback made from the call finds its owner.
CurrentScriptIsInvoker ==
    stack # <<>> /\ stack[Len(stack)].kind \in {"root", "init", "freeChildren", "function"}
        => tls = stack[Len(stack)].script

\* C19: when a root, function or forEach invocation has been left, by a
\* return or otherwise, the thread-local current script is what it was just
\* before that invocation.
CurrentScriptRestored ==
    lastExit.kind \in TlsKinds => lastExit.after = lastExit.before


\* The entry point the wrapper of an invocation in progress called.
EntryPoint(frame) ==
    CASE frame.kind = "root" -> table[frame.script].mRoot
      [] frame.kind = "init" -> table[frame.script].mInit
      [] frame.kind = "freeChildren" -> table[frame.script].mFreeChildren
      [] OTHER -> SymRoot

\* C29: no invocation of a loaded script is a call through NULL: root, init
\* and .rs.dtor are called only when the module has them, and every
\* function slot below the declared count holds a pointer that is not NULL.
NoCallThroughNull ==
    /\ \A k \in 1..Len(stack) : EntryPoint(stack[k]) # NULLADDR
    /\ \A i \in Instances :
           pc[i] = "ready" =>
               \A slot \in 1..table[i].mExportedFunctionCount :
                   table[i].mInvokeFunctions[slot] # NULLADDR

(***************************************************************************)
(* Properties of setGlobalVarWithElemDims.                                 *)
(***************************************************************************)
Occurrences(seq, o) == Cardinality({k \in 1..Len(seq) : seq[k] = o})

\* The call under way runs the loops.
ElemLoopsRun == elemOp.phase = "run" /\ elemOp.dimLength = 1

\* How many more times the outgoing data hold the object than the incoming.
Excess(o) ==
    IF Occurrences(elemOp.old, o) > Occurrences(elemOp.data, o)
    THEN Occurrences(elemOp.old, o) - Occurrences(elemOp.data, o)
    ELSE 0

\* C16: as stated: during a setGlobalVarWithElemDims call on a resolved slot
\* every increment is made before the first decrement, and the count of an
\* object held by both the incoming and the outgoing data is never below its
\* value at the start of the call.
CountNeverBelowStart ==
    ElemLoopsRun =>
        /\ elemOp.decs > 0 => elemOp.incs = Len(elemOp.data)
        /\ \A o \in Objects :
              Occurrences(elemOp.data, o) > 0 /\ Occurrences(elemOp.old, o) > 0
                  => refs[o] >= elemOp.start[o]

\* C16: amended: every increment is made before the first decrement, and
\* the count of an object is never below its value at the start less the
\* number of times the outgoing data hold it more often than the incoming.
IncrementsBeforeDecrements ==
    ElemLoopsRun =>
        /\ elemOp.decs > 0 => elemOp.incs = Len(elemOp.data)
        /\ \A o \in Objects : refs[o] >= elemOp.start[o] - Excess(o)

\* A call that overwrites an array of objects with itself has run both loops.
SelfOverwriteLoopsRun ==
    /\ ElemLoopsRun
    /\ elemOp.incs = MaxElems
    /\ Len(elemOp.data) = MaxElems
    /\ elemOp.data = elemOp.old
    /\ elemOp.decs = MaxElems
    /\ refs = elemOp.start

\* C22: the step that ends a setGlobalVarWithElemDims call of one dimension
\* whose incoming data are the elements the variable holds leaves every
\* reference count at its value before the call and the memory of the
\* variable as it was.
SelfOverwriteChangesNothing ==
    [][(/\ elemOp.phase = "run"
        /\ elemOp'.phase = "done"
        /\ elemOp.dimLength = 1
        /\ elemOp.data = elemOp.old)
           => refs' = elemOp.start /\ memory' = memory]_vars

\* A call that overwrote an array of MaxElems objects with itself has
\* returned.
SelfOverwriteReturned ==
    /\ elemOp.phase = "done"
    /\ elemOp.copied
    /\ elemOp.same
    /\ elemOp.dimLength = 1
    /\ Len(elemOp.data) = MaxElems
    /\ \E o \in Objects : refs[o] > 1

\* C17: a call whose dimension count is not 1 does not copy the data.
UnsupportedDimensionalityCopiesNothing ==
    elemOp.phase = "done" /\ elemOp.dimLength # 1 => ~elemOp.copied


(***************************************************************************)
(* Properties of setGlobalBind and getAllocationForPointer.                *)
(***************************************************************************)
\* No slot below that of the last call binds another buffer with the storage
\* pointer of its buffer.
NoLowerAlias ==
    \A ct \in 0..(lastBind.slot - 1) :
        LET a == mBoundAllocs[lastBind.script][ct]
        IN  ~(a.present /\ a # lastBind.data /\ a.mallocPtr = lastBind.data.mallocPtr)

\* After setGlobalBind(slot, NULL) no buffer that no other slot binds is
\* returned for its storage pointer.
UnboundIsNotFound ==
    lastBind.called /\ ~lastBind.data.present =>
        \A b \in BindBuffers \ {NoAllocation} :
            (\A ct \in VarSlots(lastBind.script) \ {lastBind.slot} :
                 mBoundAllocs[lastBind.script][ct] # b)
                => getAllocationForPointer(lastBind.script, b.mallocPtr) # b

\* C20: as stated: after setGlobalBind(slot, b), for any slot in range and
\* any buffer b, the lookup by the storage pointer of b returns b unless a
\* lower slot binds another buffer with that pointer; after
\* setGlobalBind(slot, NULL) a buffer bound in no other slot is not returned.
BoundBufferIsFound ==
    /\ lastBind.called /\ lastBind.data.present /\ NoLowerAlias
           => getAllocationForPointer(lastBind.script, lastBind.data.mallocPtr)
                  = lastBind.data
    /\ UnboundIsNotFound

\* C20: amended: the same for a slot whose variable has an address and a
\* buffer whose storage pointer is not NULL.
ResolvedBoundBufferIsFound ==
    /\ (/\ lastBind.called /\ lastBind.data.present /\ NoLowerAlias
        /\ table[lastBind.script].mFieldAddress[lastBind.slot + 1] # NULLADDR
        /\ lastBind.data.mallocPtr # NULLPTR)
           => getAllocationForPointer(lastBind.script, lastBind.data.mallocPtr)
                  = lastBind.data
    /\ UnboundIsNotFound

\* A buffer was bound to slot 0 while slot 1 binds another buffer with the
\* same storage pointer, and the lookup returns the buffer of slot 0.
LowerOfTwoAliasesFound ==
    /\ lastBind.called
    /\ lastBind.slot = 0
    /\ lastBind.data.present
    /\ mBoundAllocs[lastBind.script][0] = lastBind.data
    /\ mBoundAllocs[lastBind.script][1].present
    /\ mBoundAllocs[lastBind.script][1] # lastBind.data
    /\ mBoundAllocs[lastBind.script][1].mallocPtr = lastBind.data.mallocPtr
    /\ getAllocationForPointer(lastBind.script, lastBind.data.mallocPtr) = lastBind.data


(***************************************************************************)
(* Properties of the destructor.                                           *)
(***************************************************************************)
\* C21: when an instance whose init returned true has been destroyed, each
\* variable slot marked as an object whose address is not NULL was passed to
\* rsrClearObject exactly once, and no other slot was.
ObjectSlotsReleasedOnce ==
    \A i \in Instances :
        pc[i] = "destroyed" /\ cleared[i].after = "ready" =>
            \A slot \in 0..(MaxCount - 1) :
                cleared[i].calls[slot] =
                    IF /\ slot < table[i].mExportedVariableCount
                       /\ table[i].mFieldIsObject[slot + 1]
                       /\ table[i].mFieldAddress[slot + 1] # NULLADDR
                    THEN 1 ELSE 0

\* A destroyed instance had two slots marked as objects, one with an address
\* and one without.
ObjectSlotWithoutAddressKept ==
    /\ pc[1] = "destroyed"
    /\ cleared[1].after = "ready"
    /\ table[1].mExportedVariableCount = 2
    /\ table[1].mFieldIsObject = <<TRUE, TRUE>>
    /\ table[1].mFieldAddress[1] = NULLADDR
    /\ cleared[1].calls[0] = 0
    /\ cleared[1].calls[1] = 1


(***************************************************************************)
(* Properties of setGlobalVar and getGlobalVar.                            *)
(***************************************************************************)
\* The step is the access the caller chose, or none at all.
AccessStep ==
    /\ pc[1] = "ready"
    /\ caller.op # "none"
    /\ caller'.op = caller.op
    /\ caller'.slot = caller.slot
    /\ caller'.data = caller.data
    /\ caller.slot \in VarSlots(1)

\* What an access may change: nothing for a slot without an address; the
\* variable of the slot, to the given bytes, for setGlobalVar; the output
\* buffer, to the bytes of the variable, for getGlobalVar.
AccessEffect ==
    LET addr == table[1].mFieldAddress[caller.slot + 1]
        handle == mScriptSO[1]
    IN  /\ refs' = refs /\ mBoundAllocs' = mBoundAllocs
        /\ crashed' = crashed /\ launch' = launch
        /\ IF addr = NULLADDR
           THEN memory' = memory /\ caller'.out = caller.out
           ELSE IF caller.op = "set"
           THEN /\ caller'.out = caller.out
                /\ memory' \in {memory, [memory EXCEPT ![handle][addr] = caller.data]}
           ELSE /\ memory' = memory
                /\ caller'.out \in {caller.out, memory[handle][addr]}

LockReleasedOnReturn ==
    \A i \in Instances : pc[i] \in {"ready", "failed"} => mutex # i

\* The cache lookup is to be skipped.
MustRecompile ==
    \/ compile.in.debugContext
    \/ compile.in.props["debug.rs.precision"] # ""
    \/ compile.in.props["debug.rs.forcerecompile"] \in {"1", "true"}

\* init came to the compiler driver.
CompilerReached ==
    compile.done /\ compile.in.alloc = "ok" /\ compile.in.extract
        /\ compile.in.prec # "unknown"

\* C30: with debug.rs.forcerecompile "1" or "true", a precision override or
\* a debug context, the first call of the compiler driver is the build; the
\* executable is loaded only after a build that succeeded, and init returns
\* false when the build failed.
ForcedRecompileBuildsFirst ==
    CompilerReached /\ MustRecompile =>
        /\ compile.calls[1] = "build"
        /\ compile.exec => compile.in.built /\ compile.calls = <<"build", "loadScript">>
        /\ ~compile.in.built => ~compile.ret /\ compile.calls = <<"build">>

\* With debug.rs.forcerecompile "true" and an artifact in the cache, init
\* built the script, loaded it and returned true.
CachedArtifactRebuilt ==
    /\ CompilerReached
    /\ ~compile.in.debugContext
    /\ compile.in.props["debug.rs.precision"] = ""
    /\ compile.in.props["debug.rs.forcerecompile"] = "true"
    /\ compile.in.cached
    /\ compile.calls = <<"build", "loadScript">>
    /\ compile.ret

====
